---- MODULE Spec2Model ----
(***************************************************************************)
(* TrackerService (src/main/services/TrackerService.ts, held in            *)
(* src/unnamed/part_001 lines 68-1094) as a state machine.                 *)
(*                                                                         *)
(* One action is one run-to-completion piece of the Node event loop: a     *)
(* public method called from IPC, a timer callback, or the continuation    *)
(* that runs when an awaited promise settles.  Session objects live in a   *)
(* heap (sessions) and stay reachable by closures after the registry       *)
(* entry is deleted; the registry and the three maps hold references to    *)
(* them.                                                                   *)
(***************************************************************************)
EXTENDS Integers, Sequences, FiniteSets, TLC

\* ---------------------------------------------------------------- bounds
NumTasks == 2
MaxSessions == 2
MaxTime == 4000
MaxInputTime == 500
MaxUploadTime == 1000
TimeStep == 500
MaxCaptures == 2
MaxTicks == 5
MaxEdits == 1
MaxKeys == 2
MaxSharedKeys == 1
MaxMoves == 2
MaxQueries == 2
MaxRollups == 2
NumPositions == 2
MaxSlack == 2

\* ------------------------------------------------------ program constants
SCREENSHOT_INTERVAL == 5000
\* the ceiling of a diff file, in bytes (2 * 1024 * 1024), and of a diff
\* preview, in characters
DIFF_FILE_MAX_BYTES == 2097152
DIFF_METADATA_MAX_CHARS == 10000

Tasks == 1..NumTasks
SessIds == 1..MaxSessions
Positions == 1..NumPositions

\* A value that is not a number (an option left out of taskInfo).
Absent == -1

Platforms == {"darwin", "win32", "linux"}
\* taskInfo.gitRepoPath: not given, a directory without .git, a repository
GitRepos == {"none", "nogit", "repo"}

VARIABLES
  now,                  \* the wall clock, in ms
  platform,             \* process.platform
  nextSid,              \* next free session object
  sessions,             \* heap of ExtendedTrackerInfo + InputLogger objects
  activeTrackers,       \* Map taskId -> session (0: no entry)
  screenshotIntervals,  \* Map taskId -> session owning the timer (0: none)
  inputLoggers,         \* Map taskId -> session owning the logger (0: none)
  metadataLogIntervals, \* Map taskId -> session owning the timer (0: none)
  hook,                 \* globalKeyboardListener is not null
  hookListeners,        \* callbacks registered on the hook, by session
  hookKills,            \* calls of globalKeyboardListener.kill()
  hooksCreated,         \* calls of new GlobalKeyboardListener()
  captures,             \* captureScreenshot calls awaiting something
  repoVersion,          \* state of the working tree of the repository
  imageFiles,           \* screenshot files on disk
  metaFiles,            \* writes of per-screenshot metadata files
  logWrites,            \* session logs handed to fs.writeFile
  finalDiffs,           \* the calls of generateAndUploadGitDiff
  uploading,            \* uploadScreenshot and uploadRepoDiff calls
  diffOutput,           \* a diff text handed to the truncation
  result,               \* what the truncation made of it
  ret                   \* the last public call: its name, its taskId
                        \* argument or taskIds local, and its result

vars == <<now, platform, diffOutput, result, nextSid, sessions, activeTrackers,
          screenshotIntervals, inputLoggers, metadataLogIntervals, hook,
          hookListeners, hookKills,
          hooksCreated, captures, repoVersion, imageFiles,
          metaFiles, logWrites, finalDiffs, uploading, ret>>

\* everything the tracker owns in memory
trackerVars == <<nextSid, sessions, activeTrackers, screenshotIntervals,
                 inputLoggers, metadataLogIntervals, hook, hookListeners,
                 hookKills, hooksCreated, captures>>

\* everything outside the process that the tracker writes
effectVars == <<imageFiles, metaFiles, logWrites, finalDiffs, uploading>>

Min(S) == CHOOSE x \in S : \A y \in S : x <= y

NoRet == [op |-> "none", taskId |-> 0, taskIds |-> {}, success |-> FALSE,
          interval |-> 0, trackers |-> {}, reply |-> "result",
          summary |-> [count |-> 0, paths |-> <<>>, keys |-> 0, moves |-> 0,
                       duration |-> 0]]

NoSummary == NoRet.summary

\* ------------------------------------------------------------- startTracking

\* the two options tested in the opposite order
resolveSnapshotIntervalMsFirst(taskInfo) ==
  IF taskInfo.snapshotIntervalMs # Absent
    THEN taskInfo.snapshotIntervalMs
    ELSE IF taskInfo.snapshotIntervalMinutes # Absent
      THEN taskInfo.snapshotIntervalMinutes * 60 * 1000
      ELSE SCREENSHOT_INTERVAL

resolveSnapshotIntervalMs(taskInfo) ==
  IF taskInfo.snapshotIntervalMinutes # Absent
    THEN taskInfo.snapshotIntervalMinutes * 60 * 1000
    ELSE IF taskInfo.snapshotIntervalMs # Absent
      THEN taskInfo.snapshotIntervalMs
      ELSE SCREENSHOT_INTERVAL

\* trackerInfo.snapshotIntervalMs || TRACKER_CONFIG.SCREENSHOT_INTERVAL
EffectiveInterval(ms) == IF ms = 0 THEN SCREENSHOT_INTERVAL ELSE ms

\* The session object a closure holds before startTracking created it.
Unallocated ==
  [taskId |-> 0, startTime |-> 0, running |-> FALSE, endTime |-> Absent,
   screenshotCount |-> 0, screenshots |-> <<>>, keyboardEvents |-> <<>>,
   mouseEvents |-> <<>>, metadataLogs |-> <<>>, gitRepoPath |-> "none",
   lastSnapshotRef |-> 0, lastRefSeq |-> 0, snapshotIntervalMs |-> 0,
   captureStarts |-> 0, shotDue |-> Absent, metaTimer |-> FALSE,
   keyboardListener |-> FALSE, kbPending |-> FALSE, kbStarts |-> FALSE,
   kbFailed |-> FALSE,
   mouseProcess |-> FALSE, mouseTimer |-> FALSE, robotPending |-> FALSE,
   queries |-> 0, lastMousePosition |-> 0]

\* captureScreenshot up to its first await: the call is in flight, holding
\* the session object it found in the registry and its timestamp.
NewCapture(s, seq) ==
  [sid |-> s, seq |-> seq, timestamp |-> now, stage |-> "shot",
   hadBaseline |-> FALSE, currentRef |-> 0, baseSeq |-> 0, baseRef |-> 0,
   diffRuns |-> 0, gitError |-> FALSE]

\* a session whose screenshot timer is armed with the configured default
\* instead of the resolved interval
NewSessionDefaultTimer(t, taskInfo) ==
  [Unallocated EXCEPT
     !.taskId = t,
     !.startTime = now,
     !.running = TRUE,
     !.gitRepoPath = taskInfo.gitRepoPath,
     !.snapshotIntervalMs = resolveSnapshotIntervalMs(taskInfo),
     !.captureStarts = 1,
     !.shotDue = now + SCREENSHOT_INTERVAL,
     !.metaTimer = TRUE,
     !.kbPending = TRUE,
     !.kbStarts = (~ hook \/ hookListeners = {}),
     !.robotPending = (platform = "darwin"),
     !.mouseProcess = (platform # "darwin"),
     !.mouseTimer = (platform # "darwin")]

\* trackerInfo and inputLogger as startTracking leaves them when it returns:
\* the first capture in flight, the screenshot timer armed, the keyboard
\* callback handed to addListener, the mouse observer started, the rollup
\* timer armed.
NewSession(t, taskInfo) ==
  [Unallocated EXCEPT
     !.taskId = t,
     !.startTime = now,
     !.running = TRUE,
     !.gitRepoPath = taskInfo.gitRepoPath,
     !.snapshotIntervalMs = resolveSnapshotIntervalMs(taskInfo),
     !.captureStarts = 1,
     !.shotDue = now + EffectiveInterval(resolveSnapshotIntervalMs(taskInfo)),
     !.metaTimer = TRUE,
     !.kbPending = TRUE,
     !.kbStarts = (~ hook \/ hookListeners = {}),
     !.robotPending = (platform = "darwin"),
     !.mouseProcess = (platform # "darwin"),
     !.mouseTimer = (platform # "darwin")]

\* startTracking without the check of the registry
StartTrackingUnchecked(t, taskInfo) ==
  /\ nextSid <= MaxSessions
  /\ sessions' = [sessions EXCEPT ![nextSid] = NewSession(t, taskInfo)]
  /\ nextSid' = nextSid + 1
  /\ activeTrackers' = [activeTrackers EXCEPT ![t] = nextSid]
  /\ screenshotIntervals' = [screenshotIntervals EXCEPT ![t] = nextSid]
  /\ inputLoggers' = [inputLoggers EXCEPT ![t] = nextSid]
  /\ metadataLogIntervals' = [metadataLogIntervals EXCEPT ![t] = nextSid]
  /\ captures' = captures \cup {NewCapture(nextSid, 1)}
  /\ hook' = TRUE
  /\ hooksCreated' = IF hook THEN hooksCreated ELSE hooksCreated + 1
  /\ hookListeners' = hookListeners \cup {nextSid}
  /\ ret' = [NoRet EXCEPT !.op = "start", !.taskId = t, !.success = TRUE,
               !.interval = EffectiveInterval(
                              resolveSnapshotIntervalMs(taskInfo))]
  /\ UNCHANGED <<now, platform, diffOutput, result, hookKills, repoVersion, effectVars>>

StartTracking(t, taskInfo) ==
  IF activeTrackers[t] # 0
    THEN /\ ret' = [NoRet EXCEPT !.op = "start", !.taskId = t]
         /\ UNCHANGED <<now, platform, diffOutput, result, trackerVars, repoVersion, effectVars>>
    ELSE /\ nextSid <= MaxSessions
         /\ sessions' = [sessions EXCEPT ![nextSid] = NewSession(t, taskInfo)]
         /\ nextSid' = nextSid + 1
         /\ activeTrackers' = [activeTrackers EXCEPT ![t] = nextSid]
         /\ screenshotIntervals' = [screenshotIntervals EXCEPT ![t] = nextSid]
         /\ inputLoggers' = [inputLoggers EXCEPT ![t] = nextSid]
         /\ metadataLogIntervals' = [metadataLogIntervals EXCEPT ![t] = nextSid]
         /\ captures' = captures \cup {NewCapture(nextSid, 1)}
         /\ hook' = TRUE
         /\ hooksCreated' = IF hook THEN hooksCreated ELSE hooksCreated + 1
         /\ hookListeners' = hookListeners \cup {nextSid}
         /\ ret' = [NoRet EXCEPT !.op = "start", !.taskId = t,
                      !.success = TRUE,
                      !.interval = EffectiveInterval(
                                     resolveSnapshotIntervalMs(taskInfo))]
         /\ UNCHANGED <<now, platform, diffOutput, result, hookKills, repoVersion, effectVars>>

\* startTracking when new GlobalKeyboardListener() throws: the catch of
\* startKeyboardTracking logs it, no hook is kept and no callback is
\* registered; the rest of startTracking runs as usual
StartTrackingHookFailed(t, taskInfo) ==
  /\ activeTrackers[t] = 0
  /\ ~ hook
  /\ nextSid <= MaxSessions
  /\ sessions' = [sessions EXCEPT ![nextSid] =
                    [NewSession(t, taskInfo) EXCEPT !.kbPending = FALSE,
                                                    !.kbStarts = FALSE,
                                                    !.kbFailed = TRUE]]
  /\ nextSid' = nextSid + 1
  /\ activeTrackers' = [activeTrackers EXCEPT ![t] = nextSid]
  /\ screenshotIntervals' = [screenshotIntervals EXCEPT ![t] = nextSid]
  /\ inputLoggers' = [inputLoggers EXCEPT ![t] = nextSid]
  /\ metadataLogIntervals' = [metadataLogIntervals EXCEPT ![t] = nextSid]
  /\ captures' = captures \cup {NewCapture(nextSid, 1)}
  /\ ret' = [NoRet EXCEPT !.op = "start", !.taskId = t, !.success = TRUE,
               !.interval = EffectiveInterval(
                              resolveSnapshotIntervalMs(taskInfo))]
  /\ UNCHANGED <<now, platform, diffOutput, result, hook, hookListeners,
                 hooksCreated, hookKills, repoVersion, effectVars>>

\* -------------------------------------------------------------- stopTracking

ScreenshotPath(r) == <<r.taskId, r.timestamp>>

\* trackerInfo.screenshots.map(ss => ss.path)
Paths(shots) == [i \in DOMAIN shots |-> ScreenshotPath(shots[i])]

\* the summary stopTracking builds from the session object
Summary(r) ==
  [count |-> r.screenshotCount, paths |-> Paths(r.screenshots),
   keys |-> Len(r.keyboardEvents), moves |-> Len(r.mouseEvents),
   duration |-> now - r.startTime]

\* what saveMetadataLog serialises, synchronously, for fs.writeFile
LogData(s, r) ==
  [taskId |-> r.taskId, time |-> now, sid |-> s,
   count |-> r.screenshotCount, paths |-> Paths(r.screenshots),
   keys |-> Len(r.keyboardEvents), moves |-> Len(r.mouseEvents),
   metadataLogs |-> r.metadataLogs]

\* stopInputTracking on the logger object: the callback is taken off the
\* hook only when keyboardListener was already assigned.
RemovesListener(s) == sessions[s].keyboardListener /\ hook

\* The session object after the body of stopTracking, for the session held
\* by the registry and the timers/logger held by the three maps under the
\* task ids in S.
StoppedObject(s, S) ==
  LET r0 == sessions[s]
      r1 == IF \E t \in S : activeTrackers[t] = s
              THEN [r0 EXCEPT !.running = FALSE, !.endTime = now]
              ELSE r0
      r2 == IF \E t \in S : screenshotIntervals[t] = s
              THEN [r1 EXCEPT !.shotDue = Absent]
              ELSE r1
      r3 == IF \E t \in S : inputLoggers[t] = s
              THEN [r2 EXCEPT
                      !.keyboardListener =
                         IF RemovesListener(s) THEN FALSE ELSE @,
                      !.mouseTimer = IF r2.mouseProcess THEN FALSE ELSE @,
                      !.mouseProcess = FALSE]
              ELSE r2
  IN IF \E t \in S : metadataLogIntervals[t] = s
       THEN [r3 EXCEPT !.metaTimer = FALSE]
       ELSE r3

\* the ref of HEAD: what getSnapshotRef returns for the committed tree
HeadRef == 1

\* generateAndUploadGitDiff up to its first await: with a .git directory it
\* starts `git diff HEAD`, the diff of the working tree against HEAD; the
\* session's lastSnapshotRef at the call is kept beside it.
FinalDiff(s) ==
  [sid |-> s, generated |-> (sessions[s].gitRepoPath = "repo"),
   base |-> HeadRef, lastSnapshotRef |-> sessions[s].lastSnapshotRef]

\* a stopTracking that leaves the entry of the rollup timer in its map
StopSetKeepsRollupTimer(S) ==
  LET stopped == {activeTrackers[t] : t \in S}
  IN /\ sessions' = [s \in SessIds |-> StoppedObject(s, S)]
     /\ activeTrackers' = [t \in Tasks |->
                             IF t \in S THEN 0 ELSE activeTrackers[t]]
     /\ screenshotIntervals' = [t \in Tasks |->
                             IF t \in S THEN 0 ELSE screenshotIntervals[t]]
     /\ inputLoggers' = [t \in Tasks |->
                             IF t \in S THEN 0 ELSE inputLoggers[t]]
     /\ metadataLogIntervals' = metadataLogIntervals
     /\ logWrites' = logWrites \cup
          {LogData(s, StoppedObject(s, S)) : s \in stopped}
     /\ finalDiffs' = finalDiffs \cup
          {FinalDiff(s) : s \in {x \in stopped :
                                   sessions[x].gitRepoPath # "none"}}

\* stopTracking for every task id of S that has a session; the task ids
\* own disjoint objects, so the calls commute.
StopSet(S) ==
  LET stopped == {activeTrackers[t] : t \in S}
  IN /\ sessions' = [s \in SessIds |-> StoppedObject(s, S)]
     /\ activeTrackers' = [t \in Tasks |->
                             IF t \in S THEN 0 ELSE activeTrackers[t]]
     /\ screenshotIntervals' = [t \in Tasks |->
                             IF t \in S THEN 0 ELSE screenshotIntervals[t]]
     /\ inputLoggers' = [t \in Tasks |->
                             IF t \in S THEN 0 ELSE inputLoggers[t]]
     /\ metadataLogIntervals' = [t \in Tasks |->
                             IF t \in S THEN 0 ELSE metadataLogIntervals[t]]
     /\ logWrites' = logWrites \cup
          {LogData(s, StoppedObject(s, S)) : s \in stopped}
     /\ finalDiffs' = finalDiffs \cup
          {FinalDiff(s) : s \in {x \in stopped :
                                   sessions[x].gitRepoPath # "none"}}

\* a stopInputTracking that takes every callback off the hook
RegisteredListenersCleared(S) == {}

RegisteredListeners(S) ==
  {s \in hookListeners :
     ~ (\E t \in S : inputLoggers[t] = s /\ RemovesListener(s))}

\* stopTracking without the check of the registry: a task id without a
\* session gets a success and an empty summary
StopTrackingUnchecked(t) ==
  /\ StopSet({t} \cap {x \in Tasks : activeTrackers[x] # 0})
  /\ hookListeners' = RegisteredListeners({t})
  /\ ret' = [NoRet EXCEPT !.op = "stop", !.taskId = t, !.success = TRUE,
               !.summary = IF activeTrackers[t] # 0
                             THEN Summary(sessions[activeTrackers[t]])
                             ELSE NoSummary]
  /\ UNCHANGED <<now, platform, diffOutput, result, nextSid, hook, hookKills,
                 hooksCreated, captures,
                 repoVersion, imageFiles, metaFiles, uploading>>

\* a stopTracking that tears the hook down when it stops the last session
StopTrackingKillsLast(t) ==
  IF activeTrackers[t] = 0
    THEN /\ ret' = [NoRet EXCEPT !.op = "stop", !.taskId = t]
         /\ UNCHANGED <<now, platform, diffOutput, result, trackerVars, repoVersion, effectVars>>
    ELSE LET last == {x \in Tasks : activeTrackers[x] # 0} = {t}
         IN
         /\ StopSet({t})
         /\ hookListeners' = IF last /\ hook THEN {}
                             ELSE RegisteredListeners({t})
         /\ hook' = IF last THEN FALSE ELSE hook
         /\ hookKills' = IF last /\ hook
                           THEN hookKills + 1 ELSE hookKills
         /\ ret' = [NoRet EXCEPT !.op = "stop", !.taskId = t,
                      !.success = TRUE,
                      !.summary = Summary(sessions[activeTrackers[t]])]
         /\ UNCHANGED <<now, platform, diffOutput, result, nextSid, hooksCreated, captures,
                        repoVersion, imageFiles, metaFiles, uploading>>

StopTracking(t) ==
  IF activeTrackers[t] = 0
    THEN /\ ret' = [NoRet EXCEPT !.op = "stop", !.taskId = t]
         /\ UNCHANGED <<now, platform, diffOutput, result, trackerVars, repoVersion, effectVars>>
    ELSE /\ StopSet({t})
         /\ hookListeners' = RegisteredListeners({t})
         /\ ret' = [NoRet EXCEPT !.op = "stop", !.taskId = t,
                      !.success = TRUE,
                      !.summary = Summary(sessions[activeTrackers[t]])]
         /\ UNCHANGED <<now, platform, diffOutput, result, nextSid, hook, hookKills,
                        hooksCreated, captures,
                        repoVersion, imageFiles, metaFiles, uploading>>

\* ----------------------------------------------------------- stopAllTrackers

ActiveTasks == {t \in Tasks : activeTrackers[t] # 0}

\* stopAllTrackers without the teardown of the keyboard hook
StopAllTrackersKeepHook ==
  /\ StopSet(ActiveTasks)
  /\ hookListeners' = RegisteredListeners(ActiveTasks)
  /\ ret' = [NoRet EXCEPT !.op = "stopAll", !.taskIds = ActiveTasks]
  /\ UNCHANGED <<now, platform, diffOutput, result, nextSid, hook, hookKills,
                 hooksCreated, captures,
                 repoVersion, imageFiles, metaFiles, uploading>>

StopAllTrackers ==
  /\ StopSet(ActiveTasks)
  /\ hookListeners' = IF hook THEN {} ELSE RegisteredListeners(ActiveTasks)
  /\ hookKills' = IF hook THEN hookKills + 1 ELSE hookKills
  /\ hook' = FALSE
  /\ ret' = [NoRet EXCEPT !.op = "stopAll", !.taskIds = ActiveTasks]
  /\ UNCHANGED <<now, platform, diffOutput, result, nextSid, hooksCreated, captures, repoVersion,
                 imageFiles, metaFiles, uploading>>

\* ------------------------------------------------------------ status queries

\* what getTrackerStatus returns for a session: the elapsed time and the
\* three counters
Status(r) ==
  [count |-> r.screenshotCount, paths |-> <<>>,
   keys |-> Len(r.keyboardEvents), moves |-> Len(r.mouseEvents),
   duration |-> now - r.startTime]

\* a status call that reports a task as active once a session object was
\* created for it, whatever the registry holds
GetTrackerStatusStale(t) ==
  /\ ret' = IF \E s \in SessIds : s < nextSid /\ sessions[s].taskId = t
              THEN [NoRet EXCEPT !.op = "status", !.taskId = t,
                                 !.success = TRUE]
              ELSE [NoRet EXCEPT !.op = "status", !.taskId = t]
  /\ UNCHANGED <<now, platform, diffOutput, result, trackerVars, repoVersion, effectVars>>

\* a status call that forgets the last mouse position of the session it
\* reports
GetTrackerStatusResetting(t) ==
  /\ ret' = IF activeTrackers[t] = 0
              THEN [NoRet EXCEPT !.op = "status", !.taskId = t]
              ELSE [NoRet EXCEPT !.op = "status", !.taskId = t,
                                 !.success = TRUE,
                                 !.summary = Status(sessions[activeTrackers[t]])]
  /\ sessions' = IF activeTrackers[t] = 0 THEN sessions
                 ELSE [sessions EXCEPT ![activeTrackers[t]].lastMousePosition = 0]
  /\ UNCHANGED <<now, platform, diffOutput, result, nextSid, activeTrackers, screenshotIntervals,
                 inputLoggers, metadataLogIntervals, hook, hookListeners,
                 hookKills, hooksCreated, captures, repoVersion, effectVars>>

GetTrackerStatus(t) ==
  /\ ret' = IF activeTrackers[t] = 0
              THEN [NoRet EXCEPT !.op = "status", !.taskId = t]
              ELSE [NoRet EXCEPT !.op = "status", !.taskId = t,
                                 !.success = TRUE,
                                 !.summary = Status(sessions[activeTrackers[t]])]
  /\ UNCHANGED <<now, platform, diffOutput, result, trackerVars, repoVersion, effectVars>>

\* Array.from(this.activeTrackers.values()).map(...)
GetAllActiveTrackers ==
  /\ ret' = [NoRet EXCEPT
               !.op = "all",
               !.trackers =
                  {[taskId |-> sessions[activeTrackers[t]].taskId,
                    startTime |-> sessions[activeTrackers[t]].startTime,
                    screenshots |-> sessions[activeTrackers[t]].screenshotCount]
                     : t \in ActiveTasks}]
  /\ UNCHANGED <<now, platform, diffOutput, result, trackerVars, repoVersion, effectVars>>

\* ----------------------------------------------------------- the IPC handlers
\*
\* The renderer invokes a handler with an object that carries taskId and,
\* for tracker:start, taskInfo: left out, null, or an object.  ret.reply
\* tells how the handler's promise settled: with the result of the service,
\* with the failure result its catch builds, or with a rejection.

\* taskInfo = {} of startTracking, taken when the argument is undefined
DefaultTaskInfo ==
  [snapshotIntervalMinutes |-> Absent, snapshotIntervalMs |-> Absent,
   gitRepoPath |-> "none"]

\* startTracking throws: past the check of the registry, taskInfo.name reads
\* a property of null
StartTrackingThrows(t, payload) ==
  activeTrackers[t] = 0 /\ payload.given = "null"

\* the tracker:start handler without its try and catch
TrackerStartHandlerUncaught(t, payload) ==
  IF StartTrackingThrows(t, payload)
    THEN /\ ret' = [NoRet EXCEPT !.op = "start", !.taskId = t,
                                  !.reply = "thrown"]
         /\ UNCHANGED <<now, platform, diffOutput, result, trackerVars,
                        repoVersion, effectVars>>
    ELSE StartTracking(t, IF payload.given = "object" THEN payload.taskInfo
                                                      ELSE DefaultTaskInfo)

\* ipcMain.handle('tracker:start'): the result of startTracking, or the
\* failure result of the catch when startTracking threw, which it does
\* before it has changed anything
TrackerStartHandler(t, payload) ==
  IF StartTrackingThrows(t, payload)
    THEN /\ ret' = [NoRet EXCEPT !.op = "start", !.taskId = t,
                                  !.reply = "caught"]
         /\ UNCHANGED <<now, platform, diffOutput, result, trackerVars,
                        repoVersion, effectVars>>
    ELSE StartTracking(t, IF payload.given = "object" THEN payload.taskInfo
                                                      ELSE DefaultTaskInfo)

\* ipcMain.handle('tracker:stop'): the result of stopTracking
TrackerStopHandler(t) == StopTracking(t)

\* ipcMain.handle('tracker:status'): {success: true, status}
TrackerStatusHandler(t) == GetTrackerStatus(t)

\* the success field of the object a handler hands to the renderer
ReplySuccess(r) ==
  IF r.reply = "caught" THEN FALSE
  ELSE IF r.op = "status" THEN TRUE
  ELSE r.success

\* ------------------------------------------------------ the before-quit handler

\* the quit sequence with a second stopAllTrackers that still finds the hook
\* the first one killed
BeforeQuitKillsTwice(initialized) ==
  LET hookAfterFirst == hook
      killsAfterFirst == IF hook THEN hookKills + 1 ELSE hookKills
  IN /\ StopSet(ActiveTasks)
     /\ hookListeners' = IF hook THEN {} ELSE RegisteredListeners(ActiveTasks)
     /\ hookKills' = IF initialized /\ hookAfterFirst
                       THEN killsAfterFirst + 1
                       ELSE killsAfterFirst
     /\ hook' = FALSE
     /\ ret' = [NoRet EXCEPT !.op = "quit", !.taskIds = ActiveTasks]
     /\ UNCHANGED <<now, platform, diffOutput, result, nextSid, hooksCreated, captures,
                    repoVersion, imageFiles, metaFiles, uploading>>

\* app.on('before-quit'): TrackerService.stopAllTrackers(), then
\* IPCHandlers.cleanup(), which calls stopAllTrackers() again when the IPC
\* handlers were initialized.  The first call leaves the registry empty and
\* the hook field null, so the second call finds no task id to stop (its
\* forEach runs over an empty array) and its test of the hook field is what
\* decides whether kill() runs again.
BeforeQuit(initialized) ==
  LET hookAfterFirst == FALSE
      killsAfterFirst == IF hook THEN hookKills + 1 ELSE hookKills
  IN /\ StopSet(ActiveTasks)
     /\ hookListeners' = IF hook THEN {} ELSE RegisteredListeners(ActiveTasks)
     /\ hookKills' = IF initialized /\ hookAfterFirst
                       THEN killsAfterFirst + 1
                       ELSE killsAfterFirst
     /\ hook' = FALSE
     /\ ret' = [NoRet EXCEPT !.op = "quit", !.taskIds = ActiveTasks]
     /\ UNCHANGED <<now, platform, diffOutput, result, nextSid, hooksCreated, captures,
                    repoVersion, imageFiles, metaFiles, uploading>>

\* ------------------------------------------------------- time and the timers

\* The times at which an armed screenshot timer fires next.
DueTimes == {sessions[s].shotDue : s \in {x \in SessIds : sessions[x].shotDue # Absent}}

\* Time passes; a timer callback runs at the time it is due.
Advance(horizon) ==
  /\ now < horizon
  /\ \A d \in DueTimes : d > now
  /\ now' = Min({now + TimeStep} \cup DueTimes)
  /\ UNCHANGED <<platform, diffOutput, result, trackerVars, repoVersion, effectVars, ret>>

\* The setInterval callback of startScreenshotCapture: the closure holds the
\* session object s; captureScreenshot looks the task id up in the registry.
ScreenshotTick(s, limit) ==
  LET r == sessions[s]
      target == activeTrackers[r.taskId]
  IN /\ r.shotDue # Absent
     /\ r.shotDue <= now
     /\ IF r.running /\ target # 0
          THEN /\ sessions[target].captureStarts < limit
               /\ sessions' =
                    [x \in SessIds |->
                       LET a == IF x = target
                                  THEN [sessions[x] EXCEPT !.captureStarts = @ + 1]
                                  ELSE sessions[x]
                       IN IF x = s
                            THEN [a EXCEPT !.shotDue =
                                    @ + EffectiveInterval(r.snapshotIntervalMs)]
                            ELSE a]
               /\ captures' = captures \cup
                    {NewCapture(target, sessions[target].captureStarts + 1)}
          ELSE /\ sessions' = [sessions EXCEPT ![s].shotDue =
                                 @ + EffectiveInterval(r.snapshotIntervalMs)]
               /\ UNCHANGED captures
     /\ UNCHANGED <<now, platform, diffOutput, result, nextSid, activeTrackers,
                    screenshotIntervals, inputLoggers, metadataLogIntervals,
                    hook, hookListeners, hookKills,
                    hooksCreated, repoVersion, effectVars,
                    ret>>

\* ---------------------------------------------------------- captureScreenshot

ScreenshotRecord(c, content, error, key) ==
  [seq |-> c.seq, timestamp |-> c.timestamp,
   taskId |-> sessions[c.sid].taskId, diffContent |-> content,
   diffError |-> error, diffKey |-> key, hadBaseline |-> c.hadBaseline,
   baseSeq |-> c.baseSeq, ref |-> c.currentRef, baseRef |-> c.baseRef,
   diffRuns |-> c.diffRuns, gitError |-> c.gitError]

\* the push without the increment of the counter
PushRecordUncounted(c, rec, ss) ==
  /\ sessions' = [ss EXCEPT ![c.sid].screenshots = Append(@, rec)]
  /\ captures' = (captures \ {c}) \cup {[c EXCEPT !.stage = "savemeta"]}

\* a push onto the session the registry holds for the task id at the time
\* of the push
PushRecordRegistered(c, rec, ss) ==
  LET held == activeTrackers[sessions[c.sid].taskId]
      target == IF held = 0 THEN c.sid ELSE held
  IN /\ sessions' = [ss EXCEPT ![target].screenshotCount = @ + 1,
                               ![target].screenshots = Append(@, rec)]
     /\ captures' = (captures \ {c}) \cup {[c EXCEPT !.stage = "savemeta"]}

\* trackerInfo.screenshotCount++; trackerInfo.screenshots.push(...), on the
\* session object the call has held since it started, then the await of
\* saveScreenshotMetadata.
PushRecord(c, rec, ss) ==
  /\ sessions' = [ss EXCEPT ![c.sid].screenshotCount = @ + 1,
                            ![c.sid].screenshots = Append(@, rec)]
  /\ captures' = (captures \ {c}) \cup {[c EXCEPT !.stage = "savemeta"]}

\* a failed capture that has counted its screenshot before the failing await
CaptureFailedCounted(c) ==
  /\ c \in captures
  /\ c.stage = "shot"
  /\ captures' = captures \ {c}
  /\ sessions' = [sessions EXCEPT ![c.sid].screenshotCount = @ + 1]
  /\ UNCHANGED <<now, platform, diffOutput, result, nextSid, activeTrackers,
                 screenshotIntervals, inputLoggers, metadataLogIntervals,
                 hook, hookListeners, hookKills,
                 hooksCreated, repoVersion, effectVars, ret>>

\* screenshot() or the writeFile of the image rejects: the catch logs.
CaptureFailed(c) ==
  /\ c \in captures
  /\ c.stage = "shot"
  /\ captures' = captures \ {c}
  /\ UNCHANGED <<now, platform, diffOutput, result, nextSid, sessions, activeTrackers,
                 screenshotIntervals, inputLoggers, metadataLogIntervals,
                 hook, hookListeners, hookKills,
                 hooksCreated, repoVersion, effectVars, ret>>

\* The image is on disk and the call resumes: captureDiffForScreenshot runs
\* to its first await, or returns at once when there is no repository.
ImageWritten(c) ==
  LET r == sessions[c.sid]
  IN /\ c \in captures
     /\ c.stage = "shot"
     /\ imageFiles' = imageFiles \cup
          {[sid |-> c.sid, seq |-> c.seq,
            path |-> <<r.taskId, c.timestamp>>, live |-> r.running]}
     /\ CASE r.gitRepoPath = "none" ->
               PushRecord(c, ScreenshotRecord(c, "none", "missing-repo", FALSE),
                          sessions)
          [] r.gitRepoPath = "nogit" ->
               PushRecord(c, ScreenshotRecord(c, "none", "no-git", FALSE),
                          sessions)
          [] OTHER ->
               /\ captures' = (captures \ {c}) \cup
                    {[c EXCEPT !.stage = "snapref",
                               !.hadBaseline = (r.lastSnapshotRef # 0)]}
               /\ UNCHANGED sessions
     /\ UNCHANGED <<now, platform, diffOutput, result, nextSid, activeTrackers,
                    screenshotIntervals, inputLoggers, metadataLogIntervals,
                    hook, hookListeners, hookKills,
                    hooksCreated, repoVersion, metaFiles,
                    logWrites, finalDiffs, uploading, ret>>

\* the ref getSnapshotRef returns for the working tree as it is
SnapshotRef == repoVersion + 1

\* getSnapshotRef resolved and the diff subprocess is started whatever the
\* two refs are
SnapshotRefDoneAlwaysDiffs(c) ==
  LET r == sessions[c.sid]
      baseRef == IF r.lastSnapshotRef # 0 THEN r.lastSnapshotRef ELSE SnapshotRef
      c1 == [c EXCEPT !.currentRef = SnapshotRef,
                      !.baseRef = baseRef,
                      !.baseSeq = IF r.lastSnapshotRef # 0 THEN r.lastRefSeq ELSE 0]
  IN /\ c \in captures
     /\ c.stage = "snapref"
     /\ captures' = (captures \ {c}) \cup
                      {[c1 EXCEPT !.stage = "diff", !.diffRuns = @ + 1]}
     /\ UNCHANGED sessions
     /\ UNCHANGED <<now, platform, diffOutput, result, nextSid, activeTrackers,
                    screenshotIntervals, inputLoggers, metadataLogIntervals,
                    hook, hookListeners, hookKills,
                    hooksCreated, repoVersion, effectVars,
                    ret>>

\* getSnapshotRef resolved: the base ref is read now; equal refs skip the
\* diff subprocess and store the new ref at once, different refs start
\* getGitDiff.  The capture keeps the base ref it read and the number of
\* diff subprocesses it started.
SnapshotRefDone(c) ==
  LET r == sessions[c.sid]
      baseRef == IF r.lastSnapshotRef # 0 THEN r.lastSnapshotRef ELSE SnapshotRef
      c1 == [c EXCEPT !.currentRef = SnapshotRef,
                      !.baseRef = baseRef,
                      !.baseSeq = IF r.lastSnapshotRef # 0 THEN r.lastRefSeq ELSE 0]
  IN /\ c \in captures
     /\ c.stage = "snapref"
     /\ IF baseRef = SnapshotRef
          THEN /\ sessions' = [sessions EXCEPT
                                 ![c.sid].lastSnapshotRef = SnapshotRef,
                                 ![c.sid].lastRefSeq = c.seq]
               /\ captures' = (captures \ {c}) \cup
                                {[c1 EXCEPT !.stage = "post-empty"]}
          ELSE /\ captures' = (captures \ {c}) \cup
                                {[c1 EXCEPT !.stage = "diff",
                                            !.diffRuns = @ + 1]}
               /\ UNCHANGED sessions
     /\ UNCHANGED <<now, platform, diffOutput, result, nextSid, activeTrackers,
                    screenshotIntervals, inputLoggers, metadataLogIntervals,
                    hook, hookListeners, hookKills,
                    hooksCreated, repoVersion, effectVars,
                    ret>>

\* getGitDiff resolved with an empty or a non-empty text.
GitDiffDone(c, empty) ==
  /\ c \in captures
  /\ c.stage = "diff"
  /\ sessions' = [sessions EXCEPT ![c.sid].lastSnapshotRef = c.currentRef,
                                  ![c.sid].lastRefSeq = c.seq]
  /\ captures' = (captures \ {c}) \cup
       {[c EXCEPT !.stage = IF empty THEN "post-empty" ELSE "post-diff"]}
  /\ UNCHANGED <<now, platform, diffOutput, result, nextSid, activeTrackers,
                 screenshotIntervals, inputLoggers, metadataLogIntervals,
                 hook, hookListeners, hookKills,
                 hooksCreated, repoVersion, effectVars, ret>>

\* a failure of a git subprocess that leaves captureDiffForScreenshot as a
\* rejection: the catch of captureScreenshot logs and the capture ends
GitFailedRaised(c) ==
  /\ c \in captures
  /\ c.stage \in {"snapref", "diff"}
  /\ captures' = captures \ {c}
  /\ UNCHANGED <<now, platform, diffOutput, result, nextSid, sessions,
                 activeTrackers,
                 screenshotIntervals, inputLoggers, metadataLogIntervals,
                 hook, hookListeners, hookKills,
                 hooksCreated, repoVersion, effectVars, ret>>

\* a git subprocess of getSnapshotRef or getGitDiff fails or times out: the
\* catch of captureDiffForScreenshot records diffError and nothing else.
GitFailed(c) ==
  /\ c \in captures
  /\ c.stage \in {"snapref", "diff"}
  /\ PushRecord(c, ScreenshotRecord([c EXCEPT !.currentRef = 0, !.baseSeq = 0,
                                              !.baseRef = 0],
                                    "none", "git-failed", FALSE), sessions)
  /\ UNCHANGED <<now, platform, diffOutput, result, nextSid, activeTrackers,
                 screenshotIntervals, inputLoggers, metadataLogIntervals,
                 hook, hookListeners, hookKills,
                 hooksCreated, repoVersion, effectVars, ret>>

\* the text written to the diff file
DiffContentToWrite(hadBaseline, stage) ==
  IF ~ hadBaseline THEN "No baseline available."
  ELSE IF stage = "post-empty" THEN "No changes detected."
  ELSE "diff"

\* getGitState, the write of the diff file and uploadRepoDiff have settled:
\* the write failed, the upload failed, the upload returned a key, or a
\* subprocess of getGitState failed, which puts the error into the git state
\* and lets the write and the upload go on.
DiffStored(c, outcome) ==
  /\ c \in captures
  /\ c.stage \in {"post-empty", "post-diff"}
  /\ PushRecord(c,
       CASE outcome = "write-failed" ->
              ScreenshotRecord(c, "none", "write-failed", FALSE)
         [] outcome = "gitstate-failed" ->
              ScreenshotRecord([c EXCEPT !.gitError = TRUE],
                               DiffContentToWrite(c.hadBaseline, c.stage),
                               "none", TRUE)
         [] outcome = "upload-failed" ->
              ScreenshotRecord(c, DiffContentToWrite(c.hadBaseline, c.stage),
                               "upload-failed", FALSE)
         [] OTHER ->
              ScreenshotRecord(c, DiffContentToWrite(c.hadBaseline, c.stage),
                               "none", TRUE),
       sessions)
  /\ UNCHANGED <<now, platform, diffOutput, result, nextSid, activeTrackers,
                 screenshotIntervals, inputLoggers, metadataLogIntervals,
                 hook, hookListeners, hookKills,
                 hooksCreated, repoVersion, effectVars, ret>>

\* S3UploadService.uploadScreenshot up to its first await, fs.stat; the
\* record counts the authorization requests and the PUTs the call sends and
\* the times its promise settles.
NewUpload(c) ==
  [kind |-> "screenshot", sid |-> c.sid, seq |-> c.seq, stage |-> "stat",
   settled |-> "pending", success |-> FALSE, error |-> "none",
   settledAt |-> Absent, presigns |-> 0, puts |-> 0, settles |-> 0]

\* S3UploadService.uploadRepoDiff up to its first await, fs.stat
NewRepoDiffUpload(c) == [NewUpload(c) EXCEPT !.kind = "repo-diff"]

\* the record a capture has pushed onto the list of its session
PushedRecord(c) ==
  LET list == sessions[c.sid].screenshots
  IN list[CHOOSE i \in DOMAIN list : list[i].seq = c.seq]

\* the write of the per-screenshot metadata file by saveScreenshotMetadata:
\* the serialised record and whether the file got onto the disk
MetadataWrite(c, stored) ==
  [sid |-> c.sid, seq |-> c.seq, record |-> PushedRecord(c),
   stored |-> stored]

\* a saveScreenshotMetadata that returns without writing
MetadataSavedSkipped(c) ==
  /\ c \in captures
  /\ c.stage = "savemeta"
  /\ captures' = captures \ {c}
  /\ uploading' = uploading \cup {NewUpload(c)}
  /\ UNCHANGED <<now, platform, diffOutput, result, nextSid, sessions, activeTrackers,
                 screenshotIntervals, inputLoggers, metadataLogIntervals,
                 hook, hookListeners, hookKills,
                 hooksCreated, repoVersion, imageFiles, metaFiles,
                 logWrites, finalDiffs, ret>>

\* mkdir or writeFile of saveScreenshotMetadata rejected: its catch logs the
\* failure, and captureScreenshot goes on to start uploadScreenshot.
MetadataSaveFailed(c) ==
  /\ c \in captures
  /\ c.stage = "savemeta"
  /\ captures' = captures \ {c}
  /\ metaFiles' = metaFiles \cup {MetadataWrite(c, FALSE)}
  /\ uploading' = uploading \cup {NewUpload(c)}
  /\ UNCHANGED <<now, platform, diffOutput, result, nextSid, sessions, activeTrackers,
                 screenshotIntervals, inputLoggers, metadataLogIntervals,
                 hook, hookListeners, hookKills,
                 hooksCreated, repoVersion, imageFiles,
                 logWrites, finalDiffs, ret>>

\* saveScreenshotMetadata has settled; uploadScreenshot is started and not
\* awaited.
MetadataSaved(c) ==
  /\ c \in captures
  /\ c.stage = "savemeta"
  /\ captures' = captures \ {c}
  /\ metaFiles' = metaFiles \cup {MetadataWrite(c, TRUE)}
  /\ uploading' = uploading \cup {NewUpload(c)}
  /\ UNCHANGED <<now, platform, diffOutput, result, nextSid, sessions, activeTrackers,
                 screenshotIntervals, inputLoggers, metadataLogIntervals,
                 hook, hookListeners, hookKills,
                 hooksCreated, repoVersion, imageFiles,
                 logWrites, finalDiffs, ret>>

\* the ways an awaited step of uploadScreenshot fails
StatFailures == {"stat-failed"}
PresignFailures == {"presign-http-status", "presign-network-error",
                    "presign-timeout"}
PutFailures == {"put-http-status"}

\* an upload whose failure leaves uploadScreenshot as a rejection, which the
\* catch attached by captureScreenshot logs
UploadFailedRejects(u, error) ==
  [u EXCEPT !.stage = "done", !.settled = "rejected", !.error = error,
            !.settledAt = now, !.settles = @ + 1]

\* a failed leg that is sent once more instead of being reported
UploadFailedRetries(u, error) ==
  IF u.stage = "put" /\ u.puts < 2
    THEN [u EXCEPT !.puts = @ + 1]
    ELSE [u EXCEPT !.stage = "done", !.settled = "resolved",
                   !.success = FALSE, !.error = error, !.settledAt = now,
                   !.settles = @ + 1]

\* the catch of uploadScreenshot: the promise resolves to
\* {success: false, error: error.message}, which the then attached by
\* captureScreenshot logs
UploadFailed(u, error) ==
  [u EXCEPT !.stage = "done", !.settled = "resolved", !.success = FALSE,
            !.error = error, !.settledAt = now, !.settles = @ + 1]

\* uploadToS3 resolved {success: true, fileKey}; uploadScreenshot returns it
UploadSucceeded(u) ==
  [u EXCEPT !.stage = "done", !.settled = "resolved", !.success = TRUE,
            !.settledAt = now, !.settles = @ + 1]

\* the outcomes an awaited step of an upload can have, by the step
StepOutcomes(u) ==
  {"ok"} \cup (CASE u.stage = "stat" -> StatFailures
                 [] u.stage = "presign" -> PresignFailures
                 [] OTHER -> PutFailures)

\* the body of uploadScreenshot and of uploadRepoDiff from one await to the
\* next: fs.stat resolved and getPresignedUrl sends its request; the
\* authorization answered 2xx and uploadToS3 sends its PUT; the PUT answered
\* 2xx; or the step failed and the catch returns the failure.
UploadStep(u, outcome) ==
  IF outcome # "ok" THEN UploadFailed(u, outcome)
  ELSE IF u.stage = "stat"
    THEN [u EXCEPT !.stage = "presign", !.presigns = @ + 1]
  ELSE IF u.stage = "presign"
    THEN [u EXCEPT !.stage = "put", !.puts = @ + 1]
  ELSE UploadSucceeded(u)

\* one awaited step of uploadScreenshot settles: fs.stat, getPresignedUrl
\* (a 2xx answer, or a non-2xx answer, a network error or the 30 s
\* timeout), uploadToS3.  The call and its outcome stay on record.
ScreenshotUploadSettled(u, outcome) ==
  /\ u \in uploading
  /\ u.kind = "screenshot"
  /\ u.stage # "done"
  /\ outcome \in StepOutcomes(u)
  /\ uploading' = (uploading \ {u}) \cup {UploadStep(u, outcome)}
  /\ UNCHANGED <<now, platform, diffOutput, result, trackerVars, repoVersion, imageFiles,
                 metaFiles, logWrites, finalDiffs, ret>>

\* getGitState and the write of the diff file have settled without a
\* failure: the preview is taken and uploadRepoDiff is called and awaited.
DiffWritten(c) ==
  /\ c \in captures
  /\ c.stage \in {"post-empty", "post-diff"}
  /\ captures' = (captures \ {c}) \cup
       {[c EXCEPT !.stage = IF c.stage = "post-empty" THEN "upload-empty"
                                                      ELSE "upload-diff"]}
  /\ uploading' = uploading \cup {NewRepoDiffUpload(c)}
  /\ UNCHANGED <<now, platform, diffOutput, result, nextSid, sessions, activeTrackers,
                 screenshotIntervals, inputLoggers, metadataLogIntervals,
                 hook, hookListeners, hookKills, hooksCreated, repoVersion,
                 imageFiles, metaFiles, logWrites, finalDiffs, ret>>

\* the text of the diff file a capture awaiting its upload has written
WrittenContent(c) ==
  DiffContentToWrite(c.hadBaseline,
                     IF c.stage = "upload-empty" THEN "post-empty"
                                                 ELSE "post-diff")

\* one awaited step of uploadRepoDiff settles.  When the call returns, the
\* capture that awaits it resumes: it takes diffKey or diffError from the
\* result, and captureScreenshot counts and pushes the record.
RepoDiffUploadSettled(u, outcome) ==
  LET v == UploadStep(u, outcome)
      c == CHOOSE x \in captures :
             /\ x.sid = u.sid /\ x.seq = u.seq
             /\ x.stage \in {"upload-empty", "upload-diff"}
  IN /\ u \in uploading
     /\ u.kind = "repo-diff"
     /\ u.stage # "done"
     /\ outcome \in StepOutcomes(u)
     /\ uploading' = (uploading \ {u}) \cup {v}
     /\ IF v.stage = "done"
          THEN PushRecord(c,
                 ScreenshotRecord(c, WrittenContent(c),
                                  IF v.success THEN "none" ELSE v.error,
                                  v.success),
                 sessions)
          ELSE UNCHANGED <<sessions, captures>>
     /\ UNCHANGED <<now, platform, diffOutput, result, nextSid, activeTrackers,
                    screenshotIntervals, inputLoggers, metadataLogIntervals,
                    hook, hookListeners, hookKills, hooksCreated, repoVersion,
                    imageFiles, metaFiles, logWrites, finalDiffs, ret>>

\* ------------------------------------------------------- diff truncation
\*
\* A text is a number of UTF-16 code units that take the same number of
\* UTF-8 bytes each, followed by some code units of one-byte characters: the
\* truncation marker or a part of it.

NoText == [units |-> 0, width |-> 1, tail |-> 0]

NoResult == [diffContentToWrite |-> NoText, written |-> NoText,
             diffContent |-> NoText, diffTruncated |-> FALSE,
             stored |-> FALSE]

\* 'No baseline available.\n', 'No changes detected.\n' and
\* '\n\n[Diff truncated]\n'
NoBaselineText == [units |-> 23, width |-> 1, tail |-> 0]
NoChangesText == [units |-> 21, width |-> 1, tail |-> 0]
TruncationMarkerLength == 19

\* String.prototype.length
Length(text) == text.units + text.tail

\* Buffer.byteLength(text, 'utf8')
byteLength(text) == text.units * text.width + text.tail

\* text.slice(0, n): the first n code units
slice(text, n) ==
  IF n >= Length(text) THEN text
  ELSE IF n >= text.units THEN [text EXCEPT !.tail = n - text.units]
  ELSE [text EXCEPT !.units = n, !.tail = 0]

\* `${text}\n\n[Diff truncated]\n`, for a text without a tail
WithMarker(text) == [text EXCEPT !.tail = TruncationMarkerLength]

\* the text captureDiffForScreenshot writes for a diff output
diffContentToWrite(hadBaseline, diffText) ==
  IF ~ hadBaseline THEN NoBaselineText
  ELSE IF Length(diffText) = 0 THEN NoChangesText
  ELSE diffText

\* the text cut at the byte ceiling, measured in code units as slice does
TruncatedForFile(text) ==
  IF byteLength(text) > DIFF_FILE_MAX_BYTES
    THEN WithMarker(slice(text, DIFF_FILE_MAX_BYTES))
    ELSE text

\* the diff file and the fields of the capture's result
StoredDiff(text) ==
  LET written == TruncatedForFile(text)
      fits == Length(written) <= DIFF_METADATA_MAX_CHARS
  IN [diffContentToWrite |-> text,
      written |-> written,
      diffContent |-> IF fits THEN written
                      ELSE slice(written, DIFF_METADATA_MAX_CHARS),
      diffTruncated |-> (byteLength(text) > DIFF_FILE_MAX_BYTES) \/ ~ fits,
      stored |-> TRUE]

\* captureDiffForScreenshot from the choice of the text to the preview
StoreDiff(hadBaseline) ==
  /\ ~ result.stored
  /\ result' = StoredDiff(diffContentToWrite(hadBaseline, diffOutput))
  /\ UNCHANGED <<now, platform, diffOutput, trackerVars, repoVersion,
                 effectVars, ret>>

\* the user edits the working tree
EditRepo ==
  /\ repoVersion < MaxEdits
  /\ repoVersion' = repoVersion + 1
  /\ UNCHANGED <<now, platform, diffOutput, result, trackerVars, effectVars, ret>>

\* ----------------------------------------------------------- keyboard observer

\* the subtraction the other way round
ElapsedSwapped(startTime, t) == startTime - t

\* now - trackerInfo.startTime.getTime()
ElapsedSinceStart(startTime, t) == t - startTime

InputEvent(r, type, position) ==
  [timestamp |-> now, type |-> type, taskId |-> r.taskId,
   position |-> position,
   elapsedSinceStart |-> ElapsedSinceStart(r.startTime, now)]

\* the await of addListener resumes: inputLogger.keyboardListener is set
KeyboardListenerAdded(s) ==
  /\ sessions[s].kbPending
  /\ sessions' = [sessions EXCEPT ![s].kbPending = FALSE,
                                  ![s].keyboardListener = TRUE]
  /\ UNCHANGED <<now, platform, diffOutput, result, nextSid, activeTrackers, screenshotIntervals,
                 inputLoggers, metadataLogIntervals, hook, hookListeners,
                 hookKills,
                 hooksCreated, captures, repoVersion, effectVars, ret>>

\* a rejection that ends the session
KeyboardListenerFailedStops(s) ==
  /\ sessions[s].kbPending
  /\ sessions[s].kbStarts
  /\ sessions' = [sessions EXCEPT ![s].kbPending = FALSE,
                                  ![s].kbFailed = TRUE,
                                  ![s].running = FALSE]
  /\ UNCHANGED <<now, platform, diffOutput, result, nextSid, activeTrackers, screenshotIntervals,
                 inputLoggers, metadataLogIntervals, hook, hookListeners,
                 hookKills,
                 hooksCreated, captures, repoVersion, effectVars, ret>>

\* the await of addListener rejects for the callback that had to start the
\* key server: the catch logs it, inputLogger.keyboardListener stays unset,
\* the callback stays in the list of the hook
KeyboardListenerFailed(s) ==
  /\ sessions[s].kbPending
  /\ sessions[s].kbStarts
  /\ sessions' = [sessions EXCEPT ![s].kbPending = FALSE,
                                  ![s].kbFailed = TRUE]
  /\ UNCHANGED <<now, platform, diffOutput, result, nextSid, activeTrackers, screenshotIntervals,
                 inputLoggers, metadataLogIntervals, hook, hookListeners,
                 hookKills,
                 hooksCreated, captures, repoVersion, effectVars, ret>>

\* the key server of the hook is not running, so the hook delivers nothing:
\* the callback that has to start it is still waiting, or its start failed
KeyServerDown ==
  \E s \in hookListeners :
    sessions[s].kbStarts /\ (sessions[s].kbPending \/ sessions[s].kbFailed)

\* a callback that appends without looking at the running flag
listenerCallbackUnchecked(r, down) ==
  IF down
    THEN [r EXCEPT !.keyboardEvents = Append(@, InputEvent(r, "keypress", 0))]
    ELSE r

\* listenerCallback of session object r for one event of the hook
listenerCallback(r, down) ==
  IF ~ r.running THEN r
  ELSE IF down
    THEN [r EXCEPT !.keyboardEvents = Append(@, InputEvent(r, "keypress", 0))]
    ELSE r

\* key presses recorded so far by the sessions 1..n
RECURSIVE KeysRecorded(_)
KeysRecorded(n) ==
  IF n = 0 THEN 0
  ELSE Len(sessions[n].keyboardEvents) + KeysRecorded(n - 1)

\* the hook delivers one key transition to every registered callback
KeyEvent(down, limit) ==
  /\ hook
  /\ hookListeners # {}
  /\ ~ KeyServerDown
  /\ KeysRecorded(MaxSessions) < limit
  /\ sessions' = [s \in SessIds |->
                    IF s \in hookListeners
                      THEN listenerCallback(sessions[s], down)
                      ELSE sessions[s]]
  /\ UNCHANGED <<now, platform, diffOutput, result, nextSid, activeTrackers, screenshotIntervals,
                 inputLoggers, metadataLogIntervals, hook, hookListeners,
                 hookKills,
                 hooksCreated, captures, repoVersion, effectVars, ret>>

\* -------------------------------------------------------------- mouse observer

\* an append without the comparison with lastMousePosition
RecordPositionAlways(r, p) ==
  IF p = 0 THEN r
  ELSE [r EXCEPT !.mouseEvents = Append(@, InputEvent(r, "mouse_move", p)),
                 !.lastMousePosition = p]

\* the comparison with lastMousePosition and the append, shared by the
\* three backends; position 0 is a failed or unparsable query
RecordPosition(r, p) ==
  IF p = 0 \/ r.lastMousePosition = p THEN r
  ELSE [r EXCEPT !.mouseEvents = Append(@, InputEvent(r, "mouse_move", p)),
                 !.lastMousePosition = p]

\* startMacMouseTracking resumes after loadRobot and arms its poll timer
RobotLoaded(s, available) ==
  /\ sessions[s].robotPending
  /\ sessions' = [sessions EXCEPT ![s].robotPending = FALSE,
                                  ![s].mouseTimer = available \/ @,
                                  ![s].mouseProcess = available \/ @]
  /\ UNCHANGED <<now, platform, diffOutput, result, nextSid, activeTrackers, screenshotIntervals,
                 inputLoggers, metadataLogIntervals, hook, hookListeners,
                 hookKills,
                 hooksCreated, captures, repoVersion, effectVars, ret>>

\* the 100 ms poll callback: it cancels itself when the session stopped,
\* reads the position (darwin) or starts a position query (win32, linux)
MousePoll(s, p) ==
  LET r == sessions[s]
  IN /\ r.mouseTimer
     /\ sessions' = [sessions EXCEPT ![s] =
          IF ~ r.running THEN [r EXCEPT !.mouseTimer = FALSE]
          ELSE IF platform = "darwin" THEN RecordPosition(r, p)
          ELSE [r EXCEPT !.queries = @ + 1]]
     /\ r.running /\ platform # "darwin" => r.queries < MaxQueries /\ p = 0
     /\ Len(sessions'[s].mouseEvents) <= MaxMoves
     /\ UNCHANGED <<now, platform, diffOutput, result, nextSid, activeTrackers,
                    screenshotIntervals, inputLoggers, metadataLogIntervals,
                    hook, hookListeners, hookKills,
                    hooksCreated, captures, repoVersion,
                    effectVars, ret>>

\* the exec callback of a position query (win32, linux)
MouseQueryDone(s, p) ==
  /\ sessions[s].queries > 0
  /\ sessions' = [sessions EXCEPT ![s] =
       RecordPosition([sessions[s] EXCEPT !.queries = @ - 1], p)]
  /\ Len(sessions'[s].mouseEvents) <= MaxMoves
  /\ UNCHANGED <<now, platform, diffOutput, result, nextSid, activeTrackers, screenshotIntervals,
                 inputLoggers, metadataLogIntervals, hook, hookListeners,
                 hookKills,
                 hooksCreated, captures, repoVersion, effectVars, ret>>

\* ------------------------------------------------------------ metadata rollups

Rollup(r) ==
  [timestamp |-> now, screenshots |-> r.screenshotCount,
   keyboardEvents |-> Len(r.keyboardEvents),
   mouseEvents |-> Len(r.mouseEvents)]

\* a rollup timer callback that does not look at the running flag and
\* appends to the session object it holds
MetadataTickUnchecked(s) ==
  /\ sessions[s].metaTimer \/ sessions[s].endTime # Absent
  /\ sessions' = [sessions EXCEPT ![s].metadataLogs =
                                    Append(@, Rollup(sessions[s]))]
  /\ \A x \in SessIds : Len(sessions'[x].metadataLogs) <= MaxRollups
  /\ UNCHANGED <<now, platform, diffOutput, result, nextSid, activeTrackers,
                 screenshotIntervals, inputLoggers, metadataLogIntervals,
                 hook, hookListeners, hookKills,
                 hooksCreated, captures, repoVersion,
                 effectVars, ret>>

\* the rollup timer callback; logMetadata looks the task id up in the
\* registry
MetadataTick(s) ==
  LET r == sessions[s]
      target == activeTrackers[r.taskId]
  IN /\ r.metaTimer
     /\ sessions' =
          IF ~ r.running THEN [sessions EXCEPT ![s].metaTimer = FALSE]
          ELSE IF target = 0 THEN sessions
          ELSE [sessions EXCEPT ![target].metadataLogs =
                                   Append(@, Rollup(sessions[target]))]
     /\ \A x \in SessIds : Len(sessions'[x].metadataLogs) <= MaxRollups
     /\ UNCHANGED <<now, platform, diffOutput, result, nextSid, activeTrackers,
                    screenshotIntervals, inputLoggers, metadataLogIntervals,
                    hook, hookListeners, hookKills,
                    hooksCreated, captures, repoVersion,
                    effectVars, ret>>

\* ------------------------------------------------------------- specifications

\* taskInfo as the renderer may send it
TaskInfo(ms, repo) ==
  [snapshotIntervalMinutes |-> Absent, snapshotIntervalMs |-> ms,
   gitRepoPath |-> repo]

\* The fields of the service after construction.
InitTracker ==
  /\ now = 0
  /\ platform \in Platforms
  /\ nextSid = 1
  /\ sessions = [s \in SessIds |-> Unallocated]
  /\ activeTrackers = [t \in Tasks |-> 0]
  /\ screenshotIntervals = [t \in Tasks |-> 0]
  /\ inputLoggers = [t \in Tasks |-> 0]
  /\ metadataLogIntervals = [t \in Tasks |-> 0]
  /\ hook = FALSE
  /\ hookListeners = {}
  /\ hookKills = 0
  /\ hooksCreated = 0
  /\ captures = {}
  /\ repoVersion = 0
  /\ imageFiles = {}
  /\ metaFiles = {}
  /\ logWrites = {}
  /\ finalDiffs = {}
  /\ uploading = {}
  /\ result = NoResult
  /\ ret = NoRet

\* The service after construction, on one of the three platforms, with no
\* diff text at hand.
Init == InitTracker /\ diffOutput = NoText

\* the service after construction on a platform that polls the mouse with
\* a subprocess
InitLinux == Init /\ platform = "linux"

\* the service after construction on the platform that polls the mouse
\* through robotjs
InitDarwin == Init /\ platform = "darwin"

\* the awaits of a capture settling without a failure
CaptureSteps ==
  \E c \in captures :
    \/ ImageWritten(c)
    \/ SnapshotRefDone(c)
    \/ \E empty \in BOOLEAN : GitDiffDone(c, empty)
    \/ DiffStored(c, "uploaded")

\* the awaits of a capture settling with a failure
CaptureFaults ==
  \E c \in captures :
    \/ CaptureFailed(c)
    \/ GitFailed(c)
    \/ \E outcome \in {"write-failed", "upload-failed", "gitstate-failed"} :
         DiffStored(c, outcome)

\* the public methods, called from the IPC handlers and the quit sequence
Lifecycle(TS, Infos) ==
  \/ \E t \in TS, taskInfo \in Infos : StartTracking(t, taskInfo)
  \/ \E t \in TS : StopTracking(t)
  \/ StopAllTrackers

\* the life of one session of task 1: started once, stopped by either call
OneSession(Infos) ==
  \/ nextSid = 1 /\ \E taskInfo \in Infos : StartTracking(1, taskInfo)
  \/ StopTracking(1)
  \/ StopAllTrackers

Clock(limit) ==
  \/ Advance(MaxTime)
  \/ \E s \in SessIds : ScreenshotTick(s, limit)

Capture ==
  \/ CaptureSteps
  \/ EditRepo

Persist ==
  \/ \E c \in captures : MetadataSaved(c)
  \/ \E u \in uploading :
       \E outcome \in {"ok"} \cup StatFailures \cup PresignFailures
                         \cup PutFailures :
         ScreenshotUploadSettled(u, outcome)

Keyboard(limit) ==
  \/ \E s \in SessIds : KeyboardListenerAdded(s)
  \/ \E down \in BOOLEAN : KeyEvent(down, limit)

Mouse ==
  \/ \E s \in SessIds, available \in BOOLEAN : RobotLoaded(s, available)
  \/ \E s \in SessIds, p \in Positions \cup {0} : MousePoll(s, p)
  \/ \E s \in SessIds, p \in Positions \cup {0} : MouseQueryDone(s, p)

Rollups == \E s \in SessIds : MetadataTick(s)

\* the read-only calls of the IPC handlers
Queries ==
  \/ \E t \in Tasks : GetTrackerStatus(t)
  \/ GetAllActiveTrackers

\* the application quits
Quit == \E initialized \in BOOLEAN : BeforeQuit(initialized)

AllInfos == {TaskInfo(ms, repo) : ms \in {Absent, 0, 1000}, repo \in GitRepos}

Next ==
  \/ Lifecycle(Tasks, AllInfos)
  \/ Clock(MaxCaptures)
  \/ Capture
  \/ CaptureFaults
  \/ Persist
  \/ Keyboard(MaxKeys)
  \/ Mouse
  \/ Rollups
  \/ Queries
  \/ Quit

\* Every activity of the service, interleaved.
Spec == Init /\ [][Next]_vars

\* Sessions of several tasks started, stopped and stopped all at once, with
\* the shared keyboard hook delivering events; no capture settles.
LifecycleInfos == {TaskInfo(Absent, "repo")}

NextLifecycle ==
  \/ Lifecycle(Tasks, LifecycleInfos)
  \/ Keyboard(MaxSharedKeys)

SpecLifecycle == InitLinux /\ [][NextLifecycle]_vars

\* The same sessions with the status queries among the calls.
NextStatus ==
  \/ Lifecycle(Tasks, LifecycleInfos)
  \/ \E s \in SessIds : KeyboardListenerAdded(s)
  \/ Queries

SpecStatus == InitLinux /\ [][NextStatus]_vars

\* The three handlers invoked for several tasks, tracker:start with
\* taskInfo left out, null or given.
Payloads ==
  {[given |-> g, taskInfo |-> DefaultTaskInfo] : g \in {"missing", "null"}}
  \cup {[given |-> "object", taskInfo |-> i] : i \in LifecycleInfos}

NextIpc ==
  \/ \E t \in Tasks, payload \in Payloads : TrackerStartHandler(t, payload)
  \/ \E t \in Tasks : TrackerStopHandler(t)
  \/ \E t \in Tasks : TrackerStatusHandler(t)
  \/ \E s \in SessIds : KeyboardListenerAdded(s)

SpecIpc == InitLinux /\ [][NextIpc]_vars

\* The same sessions with the quit sequence among the calls.
NextShutdown ==
  \/ Lifecycle(Tasks, LifecycleInfos)
  \/ \E s \in SessIds : KeyboardListenerAdded(s)
  \/ Quit

SpecShutdown == InitLinux /\ [][NextShutdown]_vars

\* The capture pipeline of one session with a repository, every await
\* settling without a failure: the input observers and the rollup timer are
\* armed and cancelled by start and stop, and no input or rollup tick
\* arrives.
CaptureInfos == {TaskInfo(1000, "repo")}

NextCapture ==
  \/ OneSession(CaptureInfos)
  \/ Clock(MaxCaptures)
  \/ Capture

SpecCapture == InitLinux /\ [][NextCapture]_vars

\* The same pipeline within the first two ticks of the timer.
NextRefs ==
  \/ OneSession(CaptureInfos)
  \/ Advance(MaxUploadTime)
  \/ \E s \in SessIds : ScreenshotTick(s, MaxCaptures)
  \/ Capture

SpecRefs == InitLinux /\ [][NextRefs]_vars

\* The first two ticks of one session without a repository path, without a
\* .git directory or with a repository, with every failure of the display
\* capture, of the image write, of the git subprocesses, of the write of the
\* diff file and of its upload.
FaultInfos == {TaskInfo(1000, repo) : repo \in GitRepos}

NextFaults ==
  \/ OneSession(FaultInfos)
  \/ Advance(MaxUploadTime)
  \/ \E s \in SessIds : ScreenshotTick(s, MaxCaptures)
  \/ Capture
  \/ CaptureFaults

SpecFaults == InitLinux /\ [][NextFaults]_vars

\* The captures of one session without a repository and the upload each of
\* them starts, with every failure of the upload.
UploadInfos == {TaskInfo(1000, "none")}

NextUpload ==
  \/ OneSession(UploadInfos)
  \/ Advance(MaxUploadTime)
  \/ \E s \in SessIds : ScreenshotTick(s, MaxCaptures)
  \/ \E c \in captures : ImageWritten(c)
  \/ Persist

SpecUpload == InitLinux /\ [][NextUpload]_vars

\* Sessions without a repository started, stopped and started again while
\* the clock moves within the first interval, each writing the image of its
\* first capture and its session log.
NextRestart ==
  \/ Lifecycle(Tasks, UploadInfos)
  \/ Advance(MaxInputTime)
  \/ \E c \in captures : ImageWritten(c)

SpecRestart == InitLinux /\ [][NextRestart]_vars

\* The first capture of one session with a repository, awaiting the upload
\* of its diff file and then starting the upload of its image, with every
\* failure of either upload, while time passes within the first interval.
NextDiffUpload ==
  \/ OneSession(CaptureInfos)
  \/ Advance(MaxInputTime)
  \/ \E c \in captures : ImageWritten(c)
  \/ \E c \in captures : SnapshotRefDone(c)
  \/ \E c \in captures : DiffWritten(c)
  \/ \E u \in uploading :
       \E outcome \in {"ok"} \cup StatFailures \cup PresignFailures
                         \cup PutFailures :
         RepoDiffUploadSettled(u, outcome)
  \/ Persist

SpecDiffUpload == InitLinux /\ [][NextDiffUpload]_vars

\* The same capture, of a session with or without a repository, with the
\* write of its metadata file succeeding or failing.
MetaStoreInfos == {TaskInfo(1000, "repo"), TaskInfo(1000, "none")}

NextMetaStore ==
  \/ OneSession(MetaStoreInfos)
  \/ Advance(MaxInputTime)
  \/ \E c \in captures : ImageWritten(c)
  \/ \E c \in captures : SnapshotRefDone(c)
  \/ \E c \in captures : DiffWritten(c)
  \/ \E u \in uploading :
       \E outcome \in {"ok"} \cup StatFailures \cup PresignFailures
                         \cup PutFailures :
         RepoDiffUploadSettled(u, outcome)
  \/ Persist
  \/ \E c \in captures : MetadataSaveFailed(c)

SpecMetaStore == InitLinux /\ [][NextMetaStore]_vars

\* One session without a repository on the platform that reads the mouse
\* position inside the poll tick: its captures, its key presses, the pointer
\* found at one position, the status queries and the stop.
NextCounters ==
  \/ OneSession(UploadInfos)
  \/ Advance(MaxUploadTime)
  \/ \E s \in SessIds : ScreenshotTick(s, MaxCaptures)
  \/ \E c \in captures : ImageWritten(c)
  \/ Keyboard(MaxSharedKeys)
  \/ \E s \in SessIds : RobotLoaded(s, TRUE)
  \/ \E s \in SessIds : MousePoll(s, 1)
  \/ Queries

SpecCounters == InitDarwin /\ [][NextCounters]_vars

\* The screenshot timer of one session against the clock; no capture
\* settles.
TimerInfos == {TaskInfo(1000, "none"), TaskInfo(2000, "none")}

NextTimer ==
  \/ OneSession(TimerInfos)
  \/ Clock(MaxTicks)

SpecTimer == InitLinux /\ [][NextTimer]_vars

\* The screenshot timer of one session started with each combination of the
\* two interval options absent, zero or positive; no capture settles.
IntervalInfos ==
  {[snapshotIntervalMinutes |-> m, snapshotIntervalMs |-> ms,
    gitRepoPath |-> "none"] : m \in {Absent, 0, 1}, ms \in {Absent, 0, 1000}}

NextInterval ==
  \/ OneSession(IntervalInfos)
  \/ Clock(MaxTicks)

SpecInterval == InitLinux /\ [][NextInterval]_vars

\* The truncation applied to diff texts of one-, two- and three-byte
\* characters whose lengths lie around the two ceilings.
DiffLengths ==
  {0, 1} \cup
  {c + d : c \in {DIFF_METADATA_MAX_CHARS} \cup
                  {DIFF_FILE_MAX_BYTES \div w : w \in 1..3},
           d \in (0 - MaxSlack)..MaxSlack}

DiffTexts == {[units |-> n, width |-> w, tail |-> 0] :
                n \in DiffLengths, w \in 1..3}

InitTruncation ==
  /\ InitTracker /\ platform = "linux"
  /\ diffOutput \in DiffTexts

NextTruncation == \E hadBaseline \in BOOLEAN : StoreDiff(hadBaseline)

SpecTruncation ==
  /\ InitTruncation
  /\ [][NextTruncation]_vars

\* The input observers of one session on the three platforms; no capture
\* settles.
InputInfos == {TaskInfo(1000, "none")}

NextInput ==
  \/ OneSession(InputInfos)
  \/ Advance(MaxInputTime)
  \/ Keyboard(MaxKeys)
  \/ Mouse

SpecInput == Init /\ [][NextInput]_vars

\* The sessions of two tasks started and stopped one at a time while the
\* clock runs and the shared hook delivers key events.
NextShared ==
  \/ nextSid <= 2 /\ \E t \in {1, 2}, taskInfo \in LifecycleInfos :
                        StartTracking(t, taskInfo)
  \/ \E t \in {1, 2} : StopTracking(t)
  \/ Advance(MaxUploadTime)
  \/ Keyboard(MaxSharedKeys)

SpecShared == InitLinux /\ [][NextShared]_vars

\* One session with the captures and the key presses that change the counts
\* between the ticks of the rollup timer, and its stop.
NextRollup ==
  \/ OneSession(UploadInfos)
  \/ Advance(MaxUploadTime)
  \/ \E s \in SessIds : ScreenshotTick(s, MaxCaptures)
  \/ \E c \in captures : ImageWritten(c)
  \/ Keyboard(MaxSharedKeys)
  \/ Rollups

SpecRollup == InitLinux /\ [][NextRollup]_vars

\* The sessions of one task, stopped and started again while the first
\* capture, the keyboard callback, a position query and the late start of
\* the poll timer of the earlier session are still pending.
NextHandover ==
  \/ nextSid <= 2 /\ \E taskInfo \in UploadInfos : StartTracking(1, taskInfo)
  \/ StopTracking(1)
  \/ Advance(MaxInputTime)
  \/ \E c \in captures : ImageWritten(c)
  \/ Keyboard(MaxSharedKeys)
  \/ \E s \in SessIds : RobotLoaded(s, TRUE)
  \/ \E s \in SessIds, p \in {0, 1} : MousePoll(s, p)
  \/ \E s \in SessIds : MouseQueryDone(s, 1)

InitHandover == Init /\ platform \in {"darwin", "linux"}

SpecHandover == InitHandover /\ [][NextHandover]_vars

\* One session whose keyboard observer may fail to start, with its timers
\* and its mouse observer.
KeyFailureInfos == {TaskInfo(500, "none")}

NextKeyFailure ==
  \/ nextSid = 1 /\ \E taskInfo \in KeyFailureInfos :
                       StartTracking(1, taskInfo)
  \/ nextSid = 1 /\ \E taskInfo \in KeyFailureInfos :
                       StartTrackingHookFailed(1, taskInfo)
  \/ StopTracking(1)
  \/ Advance(MaxInputTime)
  \/ \E s \in SessIds : ScreenshotTick(s, MaxCaptures)
  \/ \E s \in SessIds : KeyboardListenerAdded(s)
  \/ \E s \in SessIds : KeyboardListenerFailed(s)
  \/ \E down \in BOOLEAN : KeyEvent(down, MaxSharedKeys)
  \/ \E s \in SessIds : MetadataTick(s)
  \/ \E s \in SessIds : MousePoll(s, 0)
  \/ \E s \in SessIds : MouseQueryDone(s, 1)

SpecKeyFailure == InitLinux /\ [][NextKeyFailure]_vars

\* ===================================================================== claims

Allocated(s) == s < nextSid

Registered(s) == Allocated(s) /\ activeTrackers[sessions[s].taskId] = s

\* the capture ticks a session has started by now: the immediate one and one
\* for each interval that has elapsed
TicksDue(r) ==
  1 + ((now - r.startTime) \div EffectiveInterval(r.snapshotIntervalMs))

\* C1: a startTracking(taskId) issued while the registry holds a session for
\* taskId returns a failure result and leaves the session objects, the
\* registry, the timer and observer maps, the keyboard hook, the captures in
\* flight and everything on disk as they were.
C1_StartTwiceRejected ==
  [][\A t \in Tasks : \A taskInfo \in AllInfos :
       (activeTrackers[t] # 0 /\ StartTracking(t, taskInfo))
         => /\ ret' = [NoRet EXCEPT !.op = "start", !.taskId = t]
            /\ UNCHANGED <<trackerVars, effectVars>>]_vars

\* a rejected start for a session that has recorded key presses, next to a
\* second session
C1_Witness ==
  /\ ret.op = "start"
  /\ ~ ret.success
  /\ activeTrackers[ret.taskId] # 0
  /\ sessions[activeTrackers[ret.taskId]].keyboardEvents # <<>>
  /\ \E t \in Tasks : t # ret.taskId /\ activeTrackers[t] # 0

\* C2: a stopTracking(taskId) for a task id without a session in the
\* registry returns a failure result, writes no file, starts no upload and
\* no git diff, and leaves the registry and the maps as they were.
C2_StopWithoutSession ==
  [][\A t \in Tasks :
       (activeTrackers[t] = 0 /\ StopTracking(t))
         => /\ ret' = [NoRet EXCEPT !.op = "stop", !.taskId = t]
            /\ UNCHANGED <<trackerVars, effectVars>>]_vars

\* a rejected stop for a task whose session was stopped before, while
\* another session is active
C2_Witness ==
  /\ ret.op = "stop"
  /\ ~ ret.success
  /\ activeTrackers[ret.taskId] = 0
  /\ \E s \in SessIds : Allocated(s) /\ sessions[s].taskId = ret.taskId
  /\ \E t \in Tasks : activeTrackers[t] # 0

Written == logWrites' \ logWrites

C12_UploadFailureContained ==
  /\ [](\A u \in uploading :
          u.stage = "done"
            => /\ u.settled = "resolved"
               /\ u.error # "none" => ~ u.success)
  /\ [](\A s \in SessIds :
          Registered(s)
            => /\ sessions[s].running
               /\ sessions[s].shotDue # Absent
               /\ sessions[s].shotDue > now
                    => sessions[s].captureStarts = TicksDue(sessions[s]))
  /\ [][\A u \in uploading : \A outcome \in PresignFailures :
          ScreenshotUploadSettled(u, outcome)
            => /\ UNCHANGED trackerVars
               /\ imageFiles \subseteq imageFiles'
               /\ \E v \in uploading' :
                    /\ v.sid = u.sid /\ v.seq = u.seq
                    /\ v.settled = "resolved"
                    /\ ~ v.success
                    /\ v.error = outcome]_vars

\* the authorization of the upload of the first screenshot failed while the
\* session was running; the file is on disk, the session is in the registry
\* and running, and its second capture started after the failure
C12_Witness ==
  \E u \in uploading : \E f \in imageFiles :
    /\ u.seq = 1
    /\ u.error \in PresignFailures
    /\ f.sid = u.sid /\ f.seq = 1
    /\ Registered(u.sid)
    /\ sessions[u.sid].running
    /\ \E g \in imageFiles :
         /\ g.sid = u.sid /\ g.seq = 2
         /\ g.path[2] > u.settledAt

\* C13: the keyboard callback of a session for which stopTracking has
\* returned is not registered on the shared hook, whether or not the await of
\* addListener had resumed when the session was stopped.
C13_CallbackOffAfterStop ==
  \A s \in SessIds :
    (Allocated(s) /\ ~ sessions[s].running) => s \notin hookListeners

\* C14: a session for which stopTracking has returned has no screenshot
\* timer, no rollup timer and no mouse poll timer scheduled, on any mouse
\* backend and at any later time.
C14_NoTimerAfterStop ==
  \A s \in SessIds :
    (Allocated(s) /\ ~ sessions[s].running)
      => /\ sessions[s].shotDue = Absent
         /\ ~ sessions[s].metaTimer
         /\ ~ sessions[s].mouseTimer

\* C15: once stopTracking has returned for a session, no step appends to its
\* mouseEvents, also not the callback of a position query that a poll tick
\* started before the stop.
C15_NoMouseEventAfterStop ==
  [][\A s \in SessIds :
       (Allocated(s) /\ ~ sessions[s].running)
         => sessions'[s].mouseEvents = sessions[s].mouseEvents]_vars

\* C16: an event of the shared hook appends exactly one keypress event,
\* carrying the session's task id, to the keyboardEvents of every session
\* whose callback is registered and whose running flag is true when the
\* event is a key-down; it appends nothing for another transition, nothing
\* to a session that is not running and nothing to a session whose callback
\* is not registered.
C16_KeyDelivery ==
  [][\A down \in BOOLEAN :
       KeyEvent(down, MaxSharedKeys)
         => \A s \in SessIds :
              LET before == sessions[s].keyboardEvents
                  after == sessions'[s].keyboardEvents
              IN IF down /\ s \in hookListeners /\ sessions[s].running
                   THEN /\ Len(after) = Len(before) + 1
                        /\ SubSeq(after, 1, Len(before)) = before
                        /\ after[Len(after)].type = "keypress"
                        /\ after[Len(after)].taskId = sessions[s].taskId
                   ELSE after = before]_vars

\* one key-down has reached the callbacks of two running sessions of
\* different tasks, and each recorded it once in its own list
C16_Witness ==
  \E s1 \in SessIds : \E s2 \in SessIds :
    /\ s1 # s2
    /\ sessions[s1].taskId # sessions[s2].taskId
    /\ sessions[s1].running /\ sessions[s2].running
    /\ Len(sessions[s1].keyboardEvents) = 1
    /\ Len(sessions[s2].keyboardEvents) = 1
    /\ sessions[s1].keyboardEvents[1].taskId = sessions[s1].taskId
    /\ sessions[s2].keyboardEvents[1].taskId = sessions[s2].taskId

\* the sessions that are running
Running == {s \in SessIds : Allocated(s) /\ sessions[s].running}

\* C17: between operations every session in the registry has running = true
\* (and every running session is in the registry), so getTrackerStatus
\* reports a task as active exactly when it has a running session, and
\* inactive as soon as stopTracking for it has returned, and
\* getAllActiveTrackers lists exactly the running sessions.
C17_RegistryHoldsRunning ==
  /\ [](\A t \in Tasks :
          activeTrackers[t] # 0
            => /\ sessions[activeTrackers[t]].running
               /\ sessions[activeTrackers[t]].taskId = t)
  /\ [](\A s \in Running : activeTrackers[sessions[s].taskId] = s)
  /\ [][\A t \in Tasks :
          GetTrackerStatus(t)
            => ret'.success = (\E s \in Running : sessions[s].taskId = t)]_vars
  /\ [][GetAllActiveTrackers
          => ret'.trackers =
               {[taskId |-> sessions[s].taskId,
                 startTime |-> sessions[s].startTime,
                 screenshots |-> sessions[s].screenshotCount] : s \in Running}]_vars

\* getTrackerStatus has answered inactive for a task whose session was
\* stopped, while another task is active
C17_Witness ==
  /\ ret.op = "status"
  /\ ~ ret.success
  /\ \E s \in SessIds :
       /\ Allocated(s)
       /\ sessions[s].taskId = ret.taskId
       /\ ~ sessions[s].running
       /\ sessions[s].endTime # Absent
  /\ \E t \in Tasks : t # ret.taskId /\ activeTrackers[t] # 0

\* C18: getTrackerStatus and getAllActiveTrackers change nothing but their
\* result: the clock, the registry, the session objects, the maps, the hook,
\* the captures in flight and the files stay as they are; the counters of
\* an active status are the lengths of the session's screenshots,
\* keyboardEvents and mouseEvents, and the screenshots counter of a listed
\* tracker is the length of its screenshots.
C18_QueriesReadOnly ==
  [][/\ \A t \in Tasks :
          GetTrackerStatus(t)
            => /\ UNCHANGED <<now, platform, diffOutput, result, trackerVars, repoVersion,
                              effectVars>>
               /\ activeTrackers[t] # 0
                    => LET r == sessions[activeTrackers[t]]
                       IN /\ ret'.success
                          /\ ret'.summary.count = Len(r.screenshots)
                          /\ ret'.summary.keys = Len(r.keyboardEvents)
                          /\ ret'.summary.moves = Len(r.mouseEvents)
     /\ GetAllActiveTrackers
          => /\ UNCHANGED <<now, platform, diffOutput, result, trackerVars, repoVersion,
                            effectVars>>
             /\ \A t \in ActiveTasks :
                  \E x \in ret'.trackers :
                    /\ x.taskId = t
                    /\ x.screenshots
                         = Len(sessions[activeTrackers[t]].screenshots)]_vars

\* a status that reports a screenshot, a key press and a mouse move while a
\* capture of the session is in flight
C18_Witness ==
  /\ ret.op = "status"
  /\ ret.success
  /\ ret.summary.count >= 1
  /\ ret.summary.keys >= 1
  /\ ret.summary.moves >= 1
  /\ \E c \in captures : sessions[c.sid].taskId = ret.taskId

\* C19: screenshotCount is the length of screenshots in every state, and the
\* summary a successful stopTracking returns has screenshots.count equal to
\* the number of its paths, keyboardEvents.count and mouseEvents.count equal
\* to the lengths of the event lists, and duration = endTime - startTime,
\* which is not negative.
C19_CountsMatch ==
  /\ [](\A s \in SessIds :
          sessions[s].screenshotCount = Len(sessions[s].screenshots))
  /\ [][\A t \in Tasks :
          (activeTrackers[t] # 0 /\ StopTracking(t))
            => LET r == sessions'[activeTrackers[t]]
               IN /\ ret'.success
                  /\ ret'.summary.count = Len(ret'.summary.paths)
                  /\ ret'.summary.paths = Paths(r.screenshots)
                  /\ ret'.summary.keys = Len(r.keyboardEvents)
                  /\ ret'.summary.moves = Len(r.mouseEvents)
                  /\ ret'.summary.duration = r.endTime - r.startTime
                  /\ ret'.summary.duration >= 0]_vars

\* a stop, some time after the start, whose summary counts two screenshots,
\* a key press and a mouse move
C19_Witness ==
  /\ ret.op = "stop"
  /\ ret.success
  /\ ret.summary.count = 2
  /\ ret.summary.keys >= 1
  /\ ret.summary.moves >= 1
  /\ ret.summary.duration > 0

Appended(s, seq) ==
  \E i \in DOMAIN sessions[s].screenshots :
    sessions[s].screenshots[i].seq = seq

\* C21: the record of a capture is appended without waiting for an upload:
\* while an upload of a capture's image or of its diff file is in flight,
\* the record of that capture is already in the list of its session.
C21_AppendBeforeUploads ==
  \A u \in uploading : u.stage # "done" => Appended(u.sid, u.seq)

\* C22: a call of uploadScreenshot or uploadRepoDiff sends at most one
\* authorization request and at most one PUT, sends the PUT only after the
\* authorization answered 2xx, and settles once, resolved either with
\* success and no error or with a failure and its error; a settled call
\* sends and settles nothing more.
C22_OneRequestEachLeg ==
  /\ [](\A u \in uploading :
          /\ u.presigns <= 1
          /\ u.puts <= 1
          /\ u.puts = 1
               => /\ u.presigns = 1
                  /\ u.error \notin StatFailures \cup PresignFailures
          /\ u.settles = (IF u.stage = "done" THEN 1 ELSE 0)
          /\ u.stage = "done"
               => /\ u.settled = "resolved"
                  /\ u.success <=> u.error = "none"
                  /\ u.success => u.puts = 1)
  /\ [][\A u \in uploading : u.stage = "done" => u \in uploading']_vars

\* one upload of a diff file returned a key after one authorization and one
\* PUT, and the upload of the image of the same capture failed at its PUT
C22_Witness ==
  \E u, v \in uploading :
    /\ u.kind = "repo-diff" /\ u.stage = "done" /\ u.success
    /\ u.presigns = 1 /\ u.puts = 1
    /\ v.kind = "screenshot" /\ v.sid = u.sid /\ v.seq = u.seq
    /\ v.error \in PutFailures
    /\ v.presigns = 1 /\ v.puts = 1 /\ v.settles = 1

\* the interval the options ask for: the minutes when given, else the
\* milliseconds when given, else the default
RequestedInterval(taskInfo) ==
  IF taskInfo.snapshotIntervalMinutes # Absent
    THEN taskInfo.snapshotIntervalMinutes * 60000
    ELSE IF taskInfo.snapshotIntervalMs # Absent
      THEN taskInfo.snapshotIntervalMs
      ELSE 5000

\* the delay after which the timer armed by a successful start of task t
\* fires first
ArmedInterval(t) == sessions'[activeTrackers'[t]].shotDue - now

C24_FinalDiffFromLastCapture ==
  \A d \in finalDiffs :
    d.generated /\ d.lastSnapshotRef # 0 => d.base = d.lastSnapshotRef

\* C25 as stated: a text above the byte ceiling is written as exactly the
\* ceiling length of the original, in bytes or in characters, followed by
\* the truncation marker, with diffTruncated set; a text within both
\* ceilings leaves diffTruncated unset and is the preview in full; the
\* preview never exceeds the preview ceiling.
C25_TruncatedAtCeiling ==
  result.stored =>
    LET text == result.diffContentToWrite
        written == result.written
    IN /\ byteLength(text) > DIFF_FILE_MAX_BYTES
            => /\ written.tail = TruncationMarkerLength
               /\ \/ written.units * written.width = DIFF_FILE_MAX_BYTES
                  \/ written.units = DIFF_FILE_MAX_BYTES
               /\ result.diffTruncated
       /\ (byteLength(text) <= DIFF_FILE_MAX_BYTES
             /\ Length(text) <= DIFF_METADATA_MAX_CHARS)
            => /\ ~ result.diffTruncated
               /\ result.diffContent = text
       /\ Length(result.diffContent) <= DIFF_METADATA_MAX_CHARS

\* C26: a capture whose base ref and current ref are equal starts no diff
\* subprocess and records the text that stands for an empty diff; a capture
\* starts the diff subprocess, once, exactly when the two refs differ.
C26_DiffOnlyBetweenDifferentRefs ==
  /\ \A c \in captures :
       c.currentRef # 0
         => /\ c.diffRuns = (IF c.baseRef # c.currentRef THEN 1 ELSE 0)
            /\ c.baseRef = c.currentRef
                 => c.stage \in {"post-empty", "upload-empty", "savemeta"}
  /\ \A s \in SessIds : \A i \in DOMAIN sessions[s].screenshots :
       LET rec == sessions[s].screenshots[i]
       IN rec.ref # 0
            => /\ rec.diffRuns = (IF rec.baseRef # rec.ref THEN 1 ELSE 0)
               /\ rec.baseRef = rec.ref
                    => rec.diffContent \in {"No baseline available.",
                                             "No changes detected."}

\* one session holds a record made without a diff subprocess, its refs being
\* equal, and a record made with one, its refs differing
C26_Witness ==
  \E s \in SessIds : \E i, j \in DOMAIN sessions[s].screenshots :
    LET a == sessions[s].screenshots[i]
        b == sessions[s].screenshots[j]
    IN /\ a.ref # 0 /\ a.baseRef = a.ref
       /\ a.diffRuns = 0
       /\ b.ref # 0 /\ b.baseRef # b.ref /\ b.diffRuns = 1

C28_UniqueIdsAndPaths ==
  /\ \A s \in SessIds : \A i, j \in DOMAIN sessions[s].screenshots :
       i # j => sessions[s].screenshots[i].timestamp
                  # sessions[s].screenshots[j].timestamp
  /\ \A f, g \in imageFiles :
       f.path = g.path => f.sid = g.sid /\ f.seq = g.seq
  /\ \A a, b \in logWrites :
       a.taskId = b.taskId /\ a.time = b.time => a.sid = b.sid

\* the captures of session s numbered seq that are awaiting something
InFlight(s, seq) == {c \in captures : c.sid = s /\ c.seq = seq}

\* C29: a capture whose display capture or image write fails appends no
\* record and leaves screenshotCount, the session, the registry, the timers
\* and every file as they were; a session in the registry stays running with
\* its timer armed, and its ticks stay on schedule.
C29_FailedCaptureContained ==
  /\ [][\A c \in captures :
          CaptureFailed(c)
            => /\ sessions' = sessions
               /\ UNCHANGED <<activeTrackers, screenshotIntervals,
                              inputLoggers, metadataLogIntervals, hook,
                              hookListeners, effectVars>>
               /\ ~ Appended(c.sid, c.seq)']_vars
  /\ [](\A s \in SessIds :
          Registered(s)
            => /\ sessions[s].running
               /\ sessions[s].shotDue # Absent
               /\ sessions[s].shotDue > now
                    => sessions[s].captureStarts = TicksDue(sessions[s]))

\* the first capture of a running session in the registry failed before its
\* image was written and left no record, and the second tick fired and wrote
\* its image
C29_Witness ==
  \E s \in SessIds :
    /\ Registered(s) /\ sessions[s].running
    /\ sessions[s].captureStarts = 2
    /\ InFlight(s, 1) = {}
    /\ ~ Appended(s, 1)
    /\ ~ \E f \in imageFiles : f.sid = s /\ f.seq = 1
    /\ \E f \in imageFiles : f.sid = s /\ f.seq = 2

\* the records of session s made by its capture numbered seq
RecordsOf(s, seq) ==
  {i \in DOMAIN sessions[s].screenshots :
     sessions[s].screenshots[i].seq = seq}

\* C30: a capture whose image was written appends one record and no more,
\* whatever the git operations and the diff upload do: once it awaits
\* nothing but the metadata file, its session holds exactly one record of
\* it, and before that none; a missing repository path, a missing .git
\* directory, a failed subprocess, a failed write and a failed upload are on
\* that record as diffError, a failed read of the git state as git.error.
C30_OneRecordPerWrittenImage ==
  /\ [](\A f \in imageFiles :
          Cardinality(RecordsOf(f.sid, f.seq)) =
            (IF \E c \in InFlight(f.sid, f.seq) : c.stage # "savemeta"
               THEN 0 ELSE 1))
  /\ [][\A c \in captures :
          LET pushed == sessions'[c.sid].screenshots[
                          Len(sessions'[c.sid].screenshots)]
              missing == sessions[c.sid].gitRepoPath # "repo"
          IN /\ (ImageWritten(c) /\ missing)
                  => /\ pushed.seq = c.seq
                     /\ pushed.diffError \in {"missing-repo", "no-git"}
             /\ GitFailed(c)
                  => pushed.seq = c.seq /\ pushed.diffError = "git-failed"
             /\ (\A outcome \in {"write-failed", "upload-failed"} :
                   DiffStored(c, outcome)
                     => pushed.seq = c.seq /\ pushed.diffError = outcome)
             /\ DiffStored(c, "gitstate-failed")
                  => pushed.seq = c.seq /\ pushed.gitError]_vars

\* one session holds a record of a capture whose git subprocess failed and a
\* record of a capture whose diff upload failed
C30_Witness ==
  \E s \in SessIds : \E i, j \in DOMAIN sessions[s].screenshots :
    /\ sessions[s].screenshots[i].diffError = "git-failed"
    /\ sessions[s].screenshots[j].diffError = "upload-failed"
    /\ \E f, g \in imageFiles :
         /\ f.sid = s /\ f.seq = sessions[s].screenshots[i].seq
         /\ g.sid = s /\ g.seq = sessions[s].screenshots[j].seq

\* the session object s is the one the registry and the three timer maps
\* hold for its task, and its timers are armed
TimersArmed(s) ==
  LET r == sessions[s]
  IN /\ activeTrackers[r.taskId] = s
     /\ screenshotIntervals[r.taskId] = s
     /\ metadataLogIntervals[r.taskId] = s
     /\ inputLoggers[r.taskId] = s
     /\ r.shotDue # Absent
     /\ r.metaTimer
     /\ platform # "darwin" => r.mouseTimer /\ r.mouseProcess

\* C31: when the creation of the keyboard hook or the registration of the
\* session's callback fails, startTracking has returned success, the session
\* is registered and running until it is stopped, its keyboardEvents stay
\* empty, and its screenshot timer, rollup timer and mouse observer are
\* armed as in a session without the failure; the late rejection changes
\* nothing of the session but the state of its keyboard observer.
C31_KeyboardFailureContained ==
  /\ [](\A s \in SessIds :
         sessions[s].kbFailed =>
           /\ sessions[s].keyboardEvents = <<>>
           /\ ~ sessions[s].keyboardListener
           /\ sessions[s].running => TimersArmed(s))
  /\ [][\A s \in SessIds :
         (~ sessions[s].kbFailed /\ sessions'[s].kbFailed) =>
           IF sessions[s].taskId = 0
             THEN /\ ret'.op = "start"
                  /\ ret'.success
                  /\ ret'.taskId = sessions'[s].taskId
                  /\ sessions'[s].running
                  /\ sessions'[s].captureStarts = 1
                  /\ sessions'[s].shotDue =
                       now + EffectiveInterval(sessions'[s].snapshotIntervalMs)
             ELSE /\ ret' = ret
                  /\ sessions'[s] = [sessions[s] EXCEPT !.kbPending = FALSE,
                                                        !.kbFailed = TRUE]
                  /\ activeTrackers' = activeTrackers
                  /\ captures' = captures]_vars

\* a running session whose callback registration failed, after its
\* screenshot timer fired, a rollup was taken and a mouse move was recorded
C31_Witness ==
  \E s \in SessIds :
    /\ sessions[s].kbFailed
    /\ s \in hookListeners
    /\ sessions[s].running
    /\ sessions[s].captureStarts >= 2
    /\ sessions[s].metadataLogs # <<>>
    /\ sessions[s].mouseEvents # <<>>

\* C32: a startTracking or stopTracking of task A leaves every other active
\* session B as it was (its object with the running flag, the collections
\* and the timers, its entries in the registry and the three maps, its
\* callback on the hook, the hook itself); a registered running session gets
\* every key-down event the hook delivers, also after such a call; and every
\* key press a session holds carries the session's own task id and a time
\* not before the session's start.
C32_OtherSessionsUntouched ==
  /\ [][\A A \in Tasks, B \in Tasks :
          (/\ A # B
           /\ ret'.op \in {"start", "stop"}
           /\ ret'.taskId = A
           /\ activeTrackers'[A] # activeTrackers[A]
           /\ activeTrackers[B] # 0) =>
            LET b == activeTrackers[B]
            IN /\ sessions'[b] = sessions[b]
               /\ activeTrackers'[B] = b
               /\ screenshotIntervals'[B] = screenshotIntervals[B]
               /\ inputLoggers'[B] = inputLoggers[B]
               /\ metadataLogIntervals'[B] = metadataLogIntervals[B]
               /\ (b \in hookListeners') = (b \in hookListeners)
               /\ hook' = hook
               /\ KeyServerDown' = KeyServerDown]_vars
  /\ [][(\E s \in SessIds :
           Len(sessions'[s].keyboardEvents) > Len(sessions[s].keyboardEvents)) =>
         \A s \in SessIds :
           Len(sessions'[s].keyboardEvents) =
             IF s \in hookListeners /\ sessions[s].running
               THEN Len(sessions[s].keyboardEvents) + 1
               ELSE Len(sessions[s].keyboardEvents)]_vars
  /\ [](\A s \in SessIds :
         \A i \in DOMAIN sessions[s].keyboardEvents :
           /\ sessions[s].keyboardEvents[i].taskId = sessions[s].taskId
           /\ sessions[s].keyboardEvents[i].timestamp >= sessions[s].startTime)

\* session b runs and holds a key press delivered after another task's
\* session a was stopped
C32_Witness ==
  \E a \in SessIds, b \in SessIds :
    /\ sessions[a].taskId # sessions[b].taskId
    /\ sessions[a].endTime # Absent
    /\ sessions[b].running
    /\ sessions[b].startTime < sessions[a].endTime
    /\ \E i \in DOMAIN sessions[b].keyboardEvents :
         sessions[b].keyboardEvents[i].timestamp > sessions[a].endTime

\* C33: a mouse_move event is appended only when the position read differs
\* from the session's last recorded position, which then becomes the
\* position appended; so no two consecutive entries of a session's
\* mouseEvents have the same position, on the backend that reads the position
\* in the poll tick and on those that compare in the callback of a query.
C33_NoRepeatedPosition ==
  /\ [](\A s \in SessIds :
         /\ \A i \in 1..(Len(sessions[s].mouseEvents) - 1) :
              sessions[s].mouseEvents[i].position #
                sessions[s].mouseEvents[i + 1].position
         /\ sessions[s].mouseEvents # <<>> =>
              sessions[s].lastMousePosition =
                sessions[s].mouseEvents[Len(sessions[s].mouseEvents)].position)
  /\ [][\A s \in SessIds :
         Len(sessions'[s].mouseEvents) > Len(sessions[s].mouseEvents) =>
           /\ Len(sessions'[s].mouseEvents) = Len(sessions[s].mouseEvents) + 1
           /\ sessions'[s].mouseEvents[Len(sessions'[s].mouseEvents)].position
                 # sessions[s].lastMousePosition]_vars

\* two moves recorded from query callbacks while two more queries are in
\* flight
C33_Witness ==
  \E s \in SessIds :
    /\ platform # "darwin"
    /\ Len(sessions[s].mouseEvents) = 2
    /\ sessions[s].queries = 2

\* C34: a rollup is appended only to a session that is running and is the
\* one the registry holds for its task, so none after stopTracking; its three
\* counts are the sizes of the session's collections at that moment; the
\* counts do not decrease from one rollup to the next; and the session log
\* written at stop holds every rollup of the session.
C34_RollupsWhileRunning ==
  /\ [][\A s \in SessIds :
         sessions'[s].metadataLogs # sessions[s].metadataLogs =>
           /\ sessions[s].running
           /\ activeTrackers[sessions[s].taskId] = s
           /\ sessions'[s].metadataLogs =
                Append(sessions[s].metadataLogs,
                       [timestamp |-> now,
                        screenshots |-> Len(sessions[s].screenshots),
                        keyboardEvents |-> Len(sessions[s].keyboardEvents),
                        mouseEvents |-> Len(sessions[s].mouseEvents)])]_vars
  /\ [](\A s \in SessIds :
         \A i \in 1..(Len(sessions[s].metadataLogs) - 1) :
           LET a == sessions[s].metadataLogs[i]
               b == sessions[s].metadataLogs[i + 1]
           IN /\ a.screenshots <= b.screenshots
              /\ a.keyboardEvents <= b.keyboardEvents
              /\ a.mouseEvents <= b.mouseEvents)
  /\ [](\A w \in logWrites : w.metadataLogs = sessions[w.sid].metadataLogs)

\* a stopped session whose log holds two rollups with different counts of
\* screenshots and of key presses
C34_Witness ==
  \E w \in logWrites :
    /\ Len(w.metadataLogs) = 2
    /\ w.metadataLogs[1].screenshots < w.metadataLogs[2].screenshots
    /\ w.metadataLogs[1].keyboardEvents < w.metadataLogs[2].keyboardEvents

\* the uploads of the diff file of the capture seq of session s
DiffUploads(s, seq) ==
  {u \in uploading : u.kind = "repo-diff" /\ u.sid = s /\ u.seq = seq}

\* a record's diff key and diffError agree with the upload of its diff file
KeyFollowsUpload(s, rec) ==
  /\ rec.diffKey =>
       \E u \in DiffUploads(s, rec.seq) : u.stage = "done" /\ u.success
  /\ (\A u \in DiffUploads(s, rec.seq) : ~ u.success) =>
       ~ rec.diffKey /\ rec.diffError # "none"

\* the writes of the metadata file of the record seq of session s
MetadataWrites(s, seq) == {w \in metaFiles : w.sid = s /\ w.seq = seq}

\* C35 as stated: a record carries a diff key only if the upload of its diff
\* succeeded, and a diffError and no key when that upload failed or was not
\* made; a record is not modified after it is appended; and every record
\* whose capture has finished is stored in the metadata store exactly once.
C35_KeyAfterUploadStoredOnce ==
  /\ [](\A s \in SessIds : \A i \in DOMAIN sessions[s].screenshots :
         LET rec == sessions[s].screenshots[i]
         IN /\ KeyFollowsUpload(s, rec)
            /\ InFlight(s, rec.seq) = {} =>
                 Cardinality({w \in MetadataWrites(s, rec.seq) : w.stored}) = 1)
  /\ [][\A s \in SessIds : \A i \in DOMAIN sessions[s].screenshots :
         /\ i \in DOMAIN sessions'[s].screenshots
         /\ sessions'[s].screenshots[i] = sessions[s].screenshots[i]]_vars

\* C35 amended: the same for the key, the diffError and the record staying
\* as appended; every record whose capture has finished was handed to the
\* metadata store by exactly one write, of the record as appended, and no
\* record is written before it is appended.
C35_KeyAfterUploadWrittenOnce ==
  /\ [](\A s \in SessIds : \A i \in DOMAIN sessions[s].screenshots :
         LET rec == sessions[s].screenshots[i]
         IN /\ KeyFollowsUpload(s, rec)
            /\ InFlight(s, rec.seq) = {} =>
                 /\ Cardinality(MetadataWrites(s, rec.seq)) = 1
                 /\ \A w \in MetadataWrites(s, rec.seq) : w.record = rec)
  /\ [](\A w \in metaFiles : Appended(w.sid, w.seq))
  /\ [][\A s \in SessIds : \A i \in DOMAIN sessions[s].screenshots :
         /\ i \in DOMAIN sessions'[s].screenshots
         /\ sessions'[s].screenshots[i] = sessions[s].screenshots[i]]_vars

\* a record with a diff key whose metadata write failed, beside nothing
\* else in flight
C35_Witness ==
  \E s \in SessIds : \E i \in DOMAIN sessions[s].screenshots :
    LET rec == sessions[s].screenshots[i]
    IN /\ rec.diffKey
       /\ InFlight(s, rec.seq) = {}
       /\ \E w \in MetadataWrites(s, rec.seq) : ~ w.stored

\* C36: between the calls of the service, the task ids with a screenshot
\* timer, those with a rollup timer and those with an input-observer record
\* are the task ids of the registry, and the four entries of a task id
\* belong to one session, after any sequence of startTracking, stopTracking
\* and stopAllTrackers.
C36_MapsAgreeWithRegistry ==
  \A t \in Tasks :
    /\ screenshotIntervals[t] = activeTrackers[t]
    /\ metadataLogIntervals[t] = activeTrackers[t]
    /\ inputLoggers[t] = activeTrackers[t]

\* after a stopTracking of one task another task is left in the registry
C36_Witness ==
  /\ ret.op = "stop"
  /\ ret.success
  /\ activeTrackers[ret.taskId] = 0
  /\ \E t \in Tasks : activeTrackers[t] # 0 /\ screenshotIntervals[t] # 0

\* the captures in flight for session s
CapturesOf(s) == {c \in captures : c.sid = s}

\* C37: a session created by startTracking after a stopTracking of the same
\* task id starts with empty collections and screenshotCount 0, and a step
\* of an activity of a stopped session of that task id (a capture in flight,
\* a position query, the keyboard callback, a poll timer armed late) leaves
\* every other session of the task id, the registry and the three maps as
\* they were.
C37_RestartUntouched ==
  /\ [][nextSid' # nextSid =>
         LET r == sessions'[nextSid]
         IN /\ r.running
            /\ r.screenshotCount = 0
            /\ r.screenshots = <<>>
            /\ r.keyboardEvents = <<>>
            /\ r.mouseEvents = <<>>
            /\ r.metadataLogs = <<>>
            /\ r.lastSnapshotRef = 0
            /\ r.lastMousePosition = 0
            /\ \A o \in SessIds \ {nextSid} : sessions'[o] = sessions[o]]_vars
  /\ [][\A o \in SessIds, n \in SessIds :
         (/\ o # n
          /\ sessions[o].taskId = sessions[n].taskId
          /\ sessions[o].endTime # Absent
          /\ sessions'[o] # sessions[o] \/ CapturesOf(o)' # CapturesOf(o)) =>
           /\ sessions'[n] = sessions[n]
           /\ CapturesOf(n)' = CapturesOf(n)
           /\ UNCHANGED <<activeTrackers, screenshotIntervals, inputLoggers,
                          metadataLogIntervals>>]_vars
  /\ [](\A s \in SessIds :
         /\ sessions[s].screenshotCount = Len(sessions[s].screenshots)
         /\ \A i \in DOMAIN sessions[s].screenshots :
              /\ sessions[s].screenshots[i].seq <= sessions[s].captureStarts
              /\ sessions[s].screenshots[i].timestamp >= sessions[s].startTime
         /\ \A i \in DOMAIN sessions[s].mouseEvents :
              sessions[s].mouseEvents[i].timestamp >= sessions[s].startTime
         /\ \A i \in DOMAIN sessions[s].keyboardEvents :
              sessions[s].keyboardEvents[i].timestamp >= sessions[s].startTime)

\* the earlier session got a record and a mouse move after its stop, while
\* the new session of the task id runs with its collections still empty
C37_Witness ==
  \E o \in SessIds, n \in SessIds :
    /\ o # n
    /\ sessions[o].taskId = sessions[n].taskId
    /\ sessions[o].endTime # Absent
    /\ sessions[n].running
    /\ sessions[n].startTime > sessions[o].startTime
    /\ \E w \in logWrites :
         /\ w.sid = o
         /\ w.count < sessions[o].screenshotCount
         /\ w.moves < Len(sessions[o].mouseEvents)
    /\ sessions[n].screenshots = <<>>
    /\ sessions[n].mouseEvents = <<>>

\* C38: in every session at most one record of screenshots has the
\* no-baseline marker as its diff content.
C38_OneNoBaselineRecord ==
  \A s \in SessIds :
    Cardinality({i \in DOMAIN sessions[s].screenshots :
                   sessions[s].screenshots[i].diffContent =
                     "No baseline available."}) <= 1

\* C3: once stopTracking has returned for a session, no ScreenshotRecord is
\* appended to its screenshots and its screenshotCount stays as it is, also
\* for a capture that was awaiting something when the session was stopped.
C3_NoAppendAfterStop ==
  [][\A s \in SessIds :
       (Allocated(s) /\ ~ sessions[s].running)
         => /\ sessions'[s].screenshots = sessions[s].screenshots
            /\ sessions'[s].screenshotCount = sessions[s].screenshotCount]_vars

\* C4: every screenshot whose image file was written while its session was
\* running appears exactly once among the paths of the session log that
\* stopTracking persists (the summary it returns lists the same paths).
C4_NothingLostAtStop ==
  \A w \in logWrites : \A f \in imageFiles :
    (f.sid = w.sid /\ f.live)
      => Cardinality({i \in DOMAIN w.paths : w.paths[i] = f.path}) = 1

\* the records of session s whose diff step stored a snapshot ref
WithRef(s) ==
  {i \in DOMAIN sessions[s].screenshots : sessions[s].screenshots[i].ref # 0}

\* C5: the diff attached to a screenshot (one that found a baseline) is
\* computed against the ref stored by the screenshot that precedes it in
\* capture-start order: the base is never the ref of a later capture, and no
\* recorded capture that started earlier is newer than the base.
C5_DiffAgainstPreceding ==
  \A s \in SessIds : \A i \in WithRef(s) :
    LET shots == sessions[s].screenshots
    IN shots[i].hadBaseline
         => /\ shots[i].baseSeq < shots[i].seq
            /\ \A j \in WithRef(s) :
                 shots[j].seq < shots[i].seq => shots[j].seq <= shots[i].baseSeq

\* C6: the screenshots of a session are ordered by timestamp.
C6_ScreenshotsOrdered ==
  \A s \in SessIds :
    LET shots == sessions[s].screenshots
    IN \A i \in DOMAIN shots : \A j \in DOMAIN shots :
         i < j => shots[i].timestamp <= shots[j].timestamp

\* C9: in a session with a repository the first record of screenshots has
\* the no-baseline marker as its diff content.
C9_FirstRecordNoBaseline ==
  \A s \in SessIds :
    (sessions[s].gitRepoPath = "repo" /\ sessions[s].screenshots # <<>>)
      => sessions[s].screenshots[1].diffContent = "No baseline available."

\* the events of a stream in the order of the list
Ordered(events) ==
  \A i \in DOMAIN events :
    /\ events[i].elapsedSinceStart >= 0
    /\ \A j \in DOMAIN events :
         i < j => /\ events[i].timestamp <= events[j].timestamp
                  /\ events[i].elapsedSinceStart <= events[j].elapsedSinceStart

\* C7: keyboardEvents and mouseEvents of every session are ordered by
\* timestamp and by elapsedSinceStart, and elapsedSinceStart is never
\* negative, on the three mouse backends.
C7_InputEventsOrdered ==
  \A s \in SessIds :
    /\ Ordered(sessions[s].keyboardEvents)
    /\ Ordered(sessions[s].mouseEvents)

\* two key presses and two mouse moves recorded at different times, the
\* moves by the callbacks of position queries
C7_Witness ==
  \E s \in SessIds :
    /\ platform = "linux"
    /\ Len(sessions[s].keyboardEvents) = 2
    /\ Len(sessions[s].mouseEvents) = 2
    /\ sessions[s].keyboardEvents[1].timestamp
         < sessions[s].keyboardEvents[2].timestamp
    /\ sessions[s].mouseEvents[1].elapsedSinceStart
         < sessions[s].mouseEvents[2].elapsedSinceStart

\* C8: while a session is in the registry and its timer callback for the
\* current time has run, it has started 1 + floor(t / I) capture ticks,
\* t being the time since its start and I its interval; and no capture tick
\* starts for a session once stopTracking has been called for it.
C8_TicksOnSchedule ==
  /\ [](\A s \in SessIds :
          (Registered(s) /\ sessions[s].shotDue > now)
            => sessions[s].captureStarts = TicksDue(sessions[s]))
  /\ [][\A s \in SessIds :
          (Allocated(s) /\ ~ sessions[s].running)
            => sessions'[s].captureStarts = sessions[s].captureStarts]_vars

\* a session with an interval of 1000 ms started at 0 and stopped between
\* its fourth tick and the time of the fifth, which has passed
C8_Witness ==
  \E s \in SessIds :
    /\ Allocated(s)
    /\ ~ sessions[s].running
    /\ sessions[s].startTime = 0
    /\ sessions[s].snapshotIntervalMs = 1000
    /\ sessions[s].captureStarts = 4
    /\ sessions[s].endTime > 3000
    /\ sessions[s].endTime < 4000
    /\ now >= 4000

====
